---- MODULE Spec2Model ----
(***************************************************************************)
(* Model of the investigation (case) lifecycle of the MT199 navigator      *)
(* backend: backend/app/services/investigation_service.py over the tables  *)
(* of backend/app/models/database.py.                                      *)
(*                                                                         *)
(* Storage is the two tables `investigations` and `investigation_actions`; *)
(* primary keys are auto-increment integers, so a table is a sequence and  *)
(* a row's id is its index.  Every service method is one action: it runs   *)
(* to its return (or to the exception that leaves it) in one step.         *)
(***************************************************************************)
EXTENDS Integers, Sequences, FiniteSets

(* ---- bounds of the model ------------------------------------------------ *)
\* service calls and clock ticks in one run
MaxSteps == 4
\* suggestions in one answer of the generative collaborator
MaxSuggestions == 2
\* tokens in a text handed to one of the parse chains
MaxTextLen == 4
\* tokens in an answer of the generative collaborator to process_single_message
MaxAnswerLen == 3
\* rows in a file handed to process_bulk_messages
MaxRows == 2
\* create_investigation calls (and clock ticks between them) in a run that
\* follows the requests to the collaborator or the suggestions it returns
MaxCreates == 2
\* service calls and clock ticks in a run that follows the actions' columns
MaxColumnSteps == 3
\* service calls and clock ticks before the investigations are listed
MaxListingSteps == 2

(* ---- program constants -------------------------------------------------- *)
\* a nullable DateTime column that holds no value; the clock starts at 1
NULL == 0
NoNotes == "NULL"

InvestigationStatuses == {"open", "in_progress", "resolved", "closed"}
ActionStatuses == {"pending", "in_progress", "completed", "cancelled"}

\* `status: str = Body(...)`: the route hands any string to the service
StatusInputs == ActionStatuses \cup {"on_hold"}

\* investigations.priority, and the value the route sends when the caller
\* names none
Priorities == {"low", "medium", "high", "critical"}
DefaultPriority == "medium"

\* rows of the messages table (read-only here) and the ids a caller may send
Messages == {1}
MessageInputs == {1, 2}

\* the random part of a reference number: the values a draw can produce
RefNumbers == {"INV-A", "INV-B"}

\* the workers that serve requests side by side
Requests == {"r1", "r2"}

VARIABLES
    investigations,   \* table investigations: Seq of rows, id = index
    actions,          \* table investigation_actions: Seq of rows, id = index
    now,              \* datetime.utcnow()
    everCompleted,    \* history: ids of the actions ever set to completed
    last,             \* the most recent step: the call and how it returned
    steps,            \* calls and ticks so far
    generation_calls, \* history: calls of call_openai made so far
    requests,         \* create_investigation requests in flight, per worker
    normalized,       \* a parse chain applied to a text: site, text, result
    message,          \* process_single_message: where it stands, its result
    audit,            \* table investigations: the notes and timestamp columns
    policy,           \* _process_mt199_stp_failure filling from the tables
    bulk              \* process_bulk_messages: the file, where it stands

vars == <<investigations, actions, now, everCompleted, last, steps,
          generation_calls, requests, normalized, message, audit, policy,
          bulk>>

(* ---- rows ---------------------------------------------------------------- *)
Investigation(message_id, priority, ref_number) ==
    [ message_id       |-> message_id,
      priority         |-> priority,
      reference_number |-> ref_number,
      status           |-> "open",
      resolved_at      |-> NULL ]

InvestigationAction(investigation_id) ==
    [ investigation_id |-> investigation_id,
      status           |-> "pending",
      completed_at     |-> NULL ]

Call(op, id, result) ==
    [ op |-> op, id |-> id, result |-> result ]

\* a worker's request: where create_investigation stands and its locals
Request(pc, message_id, ref_number, investigation_id, result) ==
    [ pc                |-> pc,
      message_id        |-> message_id,
      reference_number  |-> ref_number,
      investigation_id  |-> investigation_id,
      result            |-> result,
      action_id         |-> 0,
      status            |-> "",
      read_status       |-> "",
      total_actions     |-> 0,
      completed_actions |-> 0 ]

IdleRequest == Request("idle", 0, "", 0, "")

(* ---- text of the generative collaborator and json.loads ------------------ *)
\* A text is a sequence of tokens: the brackets of JSON, "s" a scalar literal
\* (string, number, true, null), "w" a word of prose, " " white space.
\* Commas, colons and the keys the code never reads are left out: what stands
\* between two brackets are the values in it.
Tokens == {"{", "}", "[", "]", "s", "w", " "}

\* Members of an object under the keys process_single_message reads:
\* "A" is "attributes": {...} with an extracted amount, "B" the same with
\* an extracted workcase_type beside it, "a" is "attributes": <not an
\* object>, "M" the three members message_id, processing_time and
\* processed_at, "T" is "workcase_type": <a list or an object>.
ConversionMembers == {"A", "B", "a", "M"}
WorkcaseMembers == {"T"}
MemberTokens == ConversionMembers \cup WorkcaseMembers

\* a JSON string in which the words regulations, sla and response_template
\* all occur
NamesToken == "k"

TextsOver(alphabet, n) == UNION { [1..k -> alphabet] : k \in 0..n }

Texts == TextsOver(Tokens, MaxTextLen)
\* what the collaborator may answer to the conversion and extraction
\* prompts, and to the classification prompt
Answers == TextsOver(Tokens \cup ConversionMembers, MaxAnswerLen)
WorkcaseAnswers ==
    TextsOver(Tokens \cup WorkcaseMembers \cup {NamesToken}, MaxAnswerLen)

\* call_openai raised instead of returning text
CallFailed == <<"Error calling OpenAI API">>

Min(S) == CHOOSE x \in S : \A y \in S : x <= y
Max(S) == CHOOSE x \in S : \A y \in S : x >= y

NotSpace(token) == token # " "

\* json.loads skips white space around and between the tokens
Compact(text) == SelectSeq(text, NotSpace)

RECURSIVE IsValue(_), IsItems(_, _)

\* the JSON grammar: a scalar, an array of values, an object of members
IsValue(t) ==
    /\ Len(t) >= 1
    /\ \/ t \in {<<"s">>, <<NamesToken>>}
       \/ /\ Len(t) >= 2
          /\ t[1] = "[" /\ t[Len(t)] = "]"
          /\ IsItems(SubSeq(t, 2, Len(t) - 1), FALSE)
       \/ /\ Len(t) >= 2
          /\ t[1] = "{" /\ t[Len(t)] = "}"
          /\ IsItems(SubSeq(t, 2, Len(t) - 1), TRUE)

IsItems(t, in_object) ==
    \/ t = <<>>
    \/ \E k \in 1..Len(t) :
          /\ \/ IsValue(SubSeq(t, 1, k))
             \/ in_object /\ k = 1 /\ t[1] \in MemberTokens
          /\ IsItems(SubSeq(t, k + 1, Len(t)), in_object)

JSONDecodeError == <<"JSONDecodeError">>

\* json.loads(text): the value (its tokens without white space) or the error
json_loads(text) ==
    IF IsValue(Compact(text)) THEN Compact(text) ELSE JSONDecodeError

NoMatch == <<>>

\* re.search(r'(\{.*\})', text, re.DOTALL).group(1), and the same with
\* brackets: the leftmost opening token that has a closing token after it,
\* up to the last closing token (".*" is greedy)
re_search(opening, closing, text) ==
    LET starts == { i \in DOMAIN text :
                      /\ text[i] = opening
                      /\ \E j \in DOMAIN text : j > i /\ text[j] = closing }
    IN  IF starts = {}
        THEN NoMatch
        ELSE LET i == Min(starts)
                 j == Max({ k \in DOMAIN text : k > i /\ text[k] = closing })
             IN  SubSeq(text, i, j)

\* the hard-coded results: "n" is the member "notes", "u" the members of the
\* UNKNOWN workcase (workcase_type, reasoning, extracted_fields, next_steps,
\* timeline), "d" the basic information_request action
DefaultConversion == <<"{", "s", "n", "}">>
DefaultExtraction == <<"{", "A", "n", "}">>
DefaultWorkcase == <<"{", "u", "}">>
DefaultActions == <<"[", "d", "]">>

\* no basic structure: the chain has parsed a value, or its default holds
\* fixed values only
NoStructure ==
    [members |-> {}, mx_message |-> <<>>, attributes |-> {}, notes |-> ""]

\* a basic structure that holds the text without its white space
basic_structure_stripped(site, response) ==
    CASE site = "convert_mt_to_mx" ->
           [ members    |-> {"mx_message", "notes"},
             mx_message |-> Compact(response),
             attributes |-> {},
             notes      |-> "Could not extract structured data, returning raw conversion" ]
      [] site = "extract_attributes" ->
           [ members    |-> {"attributes", "notes"},
             mx_message |-> <<>>,
             attributes |-> {<<"raw_extraction", Compact(response)>>},
             notes      |-> "Could not extract structured data" ]
      [] OTHER -> NoStructure

\* "# If still fails, create a basic structure": the members of the dict
\* that _convert_mt_to_mx and _extract_attributes build around the text of
\* the collaborator (attributes as its set of <<key, value>> pairs)
basic_structure(site, response) ==
    CASE site = "convert_mt_to_mx" ->
           [ members    |-> {"mx_message", "notes"},
             mx_message |-> response,
             attributes |-> {},
             notes      |-> "Could not extract structured data, returning raw conversion" ]
      [] site = "extract_attributes" ->
           [ members    |-> {"attributes", "notes"},
             mx_message |-> <<>>,
             attributes |-> {<<"raw_extraction", response>>},
             notes      |-> "Could not extract structured data" ]
      [] OTHER -> NoStructure

\* what a parse chain assigned, and the branch that assigned it
Parsed(value, stage) == [value |-> value, stage |-> stage]

\* a chain that tries the substring before the whole text
extract_json_span_first(response, default) ==
    LET json_match == re_search("{", "}", response)
    IN  IF json_match # NoMatch /\ json_loads(json_match) # JSONDecodeError
        THEN Parsed(json_loads(json_match), "embedded")
        ELSE IF json_loads(response) # JSONDecodeError
        THEN Parsed(json_loads(response), "strict")
        ELSE Parsed(default, "default")

\* "# Extract JSON from response": try json.loads(response); on
\* JSONDecodeError the regular expression and json.loads of its group; else
\* the hard-coded result
extract_json(response, default) ==
    LET result == json_loads(response)
    IN  IF result # JSONDecodeError
        THEN Parsed(result, "strict")
        ELSE LET json_match == re_search("{", "}", response)
             IN  IF json_match # NoMatch
                    /\ json_loads(json_match) # JSONDecodeError
                 THEN Parsed(json_loads(json_match), "embedded")
                 ELSE Parsed(default, "default")

convert_mt_to_mx(response) == extract_json(response, DefaultConversion)

extract_attributes(response) == extract_json(response, DefaultExtraction)

\* _process_mt199_stp_failure up to "# Add additional information"
classify_workcase(response) == extract_json(response, DefaultWorkcase)

\* _suggest_investigation_actions, "# Parse response"
parse_suggested_actions(response) ==
    LET parsed == json_loads(response)
    IN  IF parsed # JSONDecodeError
        THEN Parsed(IF parsed[1] # "["
                    THEN <<"[">> \o parsed \o <<"]">>
                    ELSE parsed, "strict")
        ELSE LET json_match == re_search("[", "]", response)
             IN  IF json_match # NoMatch
                    /\ json_loads(json_match) # JSONDecodeError
                 THEN Parsed(json_loads(json_match), "embedded")
                 ELSE Parsed(DefaultActions, "default")

Sites == {"convert_mt_to_mx", "extract_attributes",
          "process_mt199_stp_failure", "suggest_investigation_actions"}

ParseAt(site, response) ==
    CASE site = "convert_mt_to_mx"          -> convert_mt_to_mx(response)
      [] site = "extract_attributes"        -> extract_attributes(response)
      [] site = "process_mt199_stp_failure" -> classify_workcase(response)
      [] OTHER                              -> parse_suggested_actions(response)

\* isinstance(value, dict), isinstance(value, list), or neither
Shape(value) ==
    CASE value[1] = "{" -> "object"
      [] value[1] = "[" -> "list"
      [] OTHER          -> "scalar"

\* nesting of position i in a value: 1 for the members of the outer object
Depth(value, i) ==
    Cardinality({ k \in 1..(i - 1) : value[k] \in {"{", "["} })
      - Cardinality({ k \in 1..(i - 1) : value[k] \in {"}", "]"} })

\* result.get(key) on an object: the member under the key, the last one if
\* the text repeats the key, or "absent"
Member(value, keys) ==
    LET at == { i \in DOMAIN value :
                  value[i] \in keys /\ Depth(value, i) = 1 }
    IN  IF Shape(value) # "object" \/ at = {}
        THEN "absent"
        ELSE value[Max(at)]

\* process_single_message keeps of its result what its later lines read:
\* the shape, result["attributes"] (its kind and, for an object, its keys
\* with the call each value came from), and the three stamped members
Result(value) ==
    LET member == Member(value, {"A", "B", "a"})
        stamp == IF Member(value, {"M"}) = "M" THEN "output" ELSE "absent"
    IN  [ shape           |-> Shape(value),
          attributes      |-> CASE member \in {"A", "B"} -> "object"
                                [] member = "a"           -> "other"
                                [] OTHER                  -> "absent",
          items           |-> CASE member = "A" ->
                                     {<<"amount", "extraction">>}
                                [] member = "B" ->
                                     {<<"amount", "extraction">>,
                                      <<"workcase_type", "extraction">>}
                                [] OTHER -> {},
          message_id      |-> stamp,
          processing_time |-> stamp,
          processed_at    |-> stamp ]

NoResult ==
    [ shape |-> "none", attributes |-> "absent", items |-> {},
      message_id |-> "absent", processing_time |-> "absent",
      processed_at |-> "absent" ]

ActionsOf(acts, investigation_id) ==
    { a \in DOMAIN acts : acts[a].investigation_id = investigation_id }

(* ---- the generative collaborator's answer to the suggestion prompt ------- *)
\* A suggestion is "ok" when it carries the keys the action constructor reads
\* (type, description) and "bad" when action["type"] raises.
Suggestions == {"ok", "bad"}

SuggestionLists ==
    UNION { [1..n -> Suggestions] : n \in 0..MaxSuggestions }

Responses ==
    {[kind |-> "error", items |-> <<>>]}
    \cup {[kind |-> "garbage", items |-> <<>>]}
    \cup {[kind |-> "object", items |-> <<s>>] : s \in Suggestions}
    \cup {[kind |-> "array", items |-> l] : l \in SuggestionLists}

\* _suggest_investigation_actions, after the call returned text
suggest_investigation_actions(resp) ==
    CASE resp.kind = "array"   -> resp.items
      [] resp.kind = "object"  -> resp.items
      [] OTHER                 -> <<"ok">>

(* ---- mt_service: the policy tables keyed by workcase type ----------------- *)
\* the types the classification prompt names, and one it does not name
WorkcaseTypes ==
    { "NON_RECEIPT", "CANCELLATION", "RETURN_FUNDS", "WRONG_AMOUNT",
      "DUPLICATE_PAYMENT", "WRONG_BENEFICIARY", "REGULATORY_COMPLIANCE",
      "TECHNICAL_ISSUE", "QUERY", "UNKNOWN" }

TypeInputs == WorkcaseTypes \cup {"CHARGEBACK"}

\* result.get("workcase_type", ...) when the key is missing, and a
\* workcase_type that is a JSON array or object
Absent == "<absent>"
Unhashable == "<unhashable>"

\* a regulations list that treats only CANCELLATION as a return of funds
get_default_regulations_cancellation_only(workcase_type) ==
    <<"Record Keeping">>
      \o (IF workcase_type = "CANCELLATION"
          THEN <<"Return Timeframes">> ELSE <<>>)
      \o (IF workcase_type = "REGULATORY_COMPLIANCE"
          THEN <<"Suspicious Activity Reporting">> ELSE <<>>)

\* _get_default_regulations: the names of the rules, in list order
get_default_regulations(workcase_type) ==
    <<"Record Keeping">>
      \o (IF workcase_type \in {"CANCELLATION", "RETURN_FUNDS"}
          THEN <<"Return Timeframes">> ELSE <<>>)
      \o (IF workcase_type = "REGULATORY_COMPLIANCE"
          THEN <<"Suspicious Activity Reporting">> ELSE <<>>)

\* no table handed out yet
NoSla ==
    [ acknowledgment |-> 0, initial_research |-> 0, correspondence |-> 0,
      follow_up |-> 0, resolution |-> 0 ]

\* an SLA lookup that adjusts the table handed out by the lookup before it
get_default_sla_shared(workcase_type) ==
    LET sla == IF policy.sla = NoSla
               THEN [ acknowledgment |-> 24, initial_research |-> 48,
                      correspondence |-> 72, follow_up |-> 120,
                      resolution |-> 240 ]
               ELSE policy.sla
    IN  IF workcase_type = "CANCELLATION"
        THEN [sla EXCEPT !.acknowledgment = 4, !.initial_research = 8,
                         !.correspondence = 12, !.resolution = 72]
        ELSE IF workcase_type = "REGULATORY_COMPLIANCE"
        THEN [sla EXCEPT !.initial_research = 72, !.resolution = 480]
        ELSE sla

\* _get_default_sla: hours per stage, from a dict built at each call
get_default_sla(workcase_type) ==
    LET sla == [ acknowledgment |-> 24, initial_research |-> 48,
                 correspondence |-> 72, follow_up |-> 120,
                 resolution |-> 240 ]
    IN  IF workcase_type = "CANCELLATION"
        THEN [sla EXCEPT !.acknowledgment = 4, !.initial_research = 8,
                         !.correspondence = 12, !.resolution = 72]
        ELSE IF workcase_type = "REGULATORY_COMPLIANCE"
        THEN [sla EXCEPT !.initial_research = 72, !.resolution = 480]
        ELSE sla

\* the names a template may refer to, and a field no template refers to
Placeholders ==
    { "reference", "recipient", "amount", "currency", "date",
      "beneficiary", "reason" }

FieldKeys == Placeholders \cup {"sender"}

Braced(name) == "{" \o name \o "}"

\* the value extracted_fields holds under a key
FieldValue(key) == "<" \o key \o ">"

\* datetime.now().strftime("%Y-%m-%d")
Today == "today"

\* extracted_fields: a JSON object, some other JSON value, or no such key
Dict(items) == [kind |-> "dict", items |-> items]
NotADict == [kind |-> "other", items |-> <<>>]
NoFields == [kind |-> "absent", items |-> <<>>]

FieldInputs ==
    { Dict([k \in S |-> FieldValue(k)]) : S \in SUBSET FieldKeys }
      \cup {NotADict, NoFields}

\* the three templates: their text between the placeholders is kept as one
\* token, the placeholders in the order of the text
templates ==
    [ NON_RECEIPT |->
        << "Investigation - Non-Receipt of Funds", "{reference}",
           "Dear", "{recipient}", "Reference", "{reference}",
           "Amount", "{amount}", "{currency}", "Date", "{date}",
           "Beneficiary", "{beneficiary}", "Investigation Team" >>,
      CANCELLATION |->
        << "Urgent Cancellation Request", "{reference}",
           "Dear", "{recipient}", "Reference", "{reference}",
           "Amount", "{amount}", "{currency}", "Date", "{date}",
           "Reason for cancellation", "{reason}", "Please confirm" >>,
      UNKNOWN |->
        << "Investigation Request", "{reference}",
           "Dear", "{recipient}", "Reference", "{reference}",
           "Investigation Team" >> ]

\* templates.get(workcase_type, templates["UNKNOWN"])
TemplateOf(workcase_type) ==
    IF workcase_type \in DOMAIN templates
    THEN templates[workcase_type]
    ELSE templates["UNKNOWN"]

get(fields, key, default) ==
    IF key \in DOMAIN fields THEN fields[key] ELSE default

\* values for the placeholders that leave reason to the template
safe_values_without_reason(fields) ==
    [ key \in (Placeholders \ {"reason"}) \cup DOMAIN fields |->
        CASE key = "reference"   -> get(fields, "reference", "Unknown")
          [] key = "recipient"   -> get(fields, "recipient",
                                        "Valued Correspondent")
          [] key = "amount"      -> get(fields, "amount", "Unknown")
          [] key = "currency"    -> get(fields, "currency", "USD")
          [] key = "date"        -> get(fields, "date", Today)
          [] key = "beneficiary" -> get(fields, "beneficiary", "Unknown")
          [] OTHER               -> fields[key] ]

\* safe_values after "# Add any additional extracted fields"
safe_values(fields) ==
    [ key \in Placeholders \cup DOMAIN fields |->
        CASE key = "reference"   -> get(fields, "reference", "Unknown")
          [] key = "recipient"   -> get(fields, "recipient",
                                        "Valued Correspondent")
          [] key = "amount"      -> get(fields, "amount", "Unknown")
          [] key = "currency"    -> get(fields, "currency", "USD")
          [] key = "date"        -> get(fields, "date", Today)
          [] key = "beneficiary" -> get(fields, "beneficiary", "Unknown")
          [] key = "reason"      -> "Customer request"
          [] OTHER               -> fields[key] ]

\* the names a template refers to
Names(template) ==
    { name \in FieldKeys : \E i \in DOMAIN template :
                               template[i] = Braced(name) }

\* template.format(**values); a name without a value is a KeyError
format(template, values) ==
    LET names == Names(template)
    IN  IF names \subseteq DOMAIN values
        THEN [ rendered |->
                 [ i \in DOMAIN template |->
                     IF \E name \in names : template[i] = Braced(name)
                     THEN values[CHOOSE name \in names :
                                     template[i] = Braced(name)]
                     ELSE template[i] ],
               raised |-> FALSE ]
        ELSE [rendered |-> template, raised |-> TRUE]

\* _get_default_response_template for a workcase_type that can be hashed:
\* fields.get on a value that is not a dict and a failing format both end
\* in `except Exception: return template`
get_default_response_template(workcase_type, fields) ==
    LET template == TemplateOf(workcase_type)
    IN  IF fields.kind # "dict"
        THEN template
        ELSE format(template, safe_values(fields.items)).rendered

\* what the generative output may supply of the three policy entries
PolicyKeys == {"regulations", "sla", "response_template"}
SuppliedRegulations == <<"supplied rule">>
SuppliedSla ==
    [ acknowledgment |-> 1, initial_research |-> 1, correspondence |-> 1,
      follow_up |-> 1, resolution |-> 1 ]
SuppliedTemplate == <<"supplied template">>

\* the parsed classification: its shape, which policy keys it has, and the
\* members the policy lookups read.  Shape "names" is a JSON string or array
\* in which `"regulations" in result`, `"sla" in result` and
\* `"response_template" in result` all hold without its being an object.
Classification(shape, keys, workcase_type, extracted_fields) ==
    [ shape             |-> shape,
      keys              |-> keys,
      workcase_type     |-> workcase_type,
      extracted_fields  |-> extracted_fields,
      regulations       |-> IF "regulations" \in keys
                            THEN SuppliedRegulations ELSE <<>>,
      sla               |-> IF "sla" \in keys THEN SuppliedSla ELSE NoSla,
      response_template |-> IF "response_template" \in keys
                            THEN SuppliedTemplate ELSE <<>> ]

NoClassification == Classification("none", {}, Absent, NoFields)

ClassificationInputs ==
    { Classification("object", keys, workcase_type, extracted_fields) :
        keys \in SUBSET PolicyKeys,
        workcase_type \in TypeInputs \cup {Absent, Unhashable},
        extracted_fields \in FieldInputs }
      \cup { Classification(shape, {}, Absent, NoFields) :
               shape \in {"list", "scalar", "names"} }

\* result.get("workcase_type", "UNKNOWN")
WorkcaseTypeOf(result) ==
    IF result.workcase_type = Absent THEN "UNKNOWN" ELSE result.workcase_type

\* result.get("extracted_fields", {})
ExtractedFieldsOf(result) ==
    IF result.extracted_fields = NoFields
    THEN Dict(<<>>) ELSE result.extracted_fields

\* _process_mt199_stp_failure, "# Add additional information for workflows":
\* the result it returns, or the exception that ends it.  A value that is
\* not a dict fails at `in` or at the first item assignment, unless it
\* passes the three `in` tests; templates.get fails on an unhashable key.
add_workflow_information(result) ==
    IF result.shape = "names"
    THEN [result |-> result, outcome |-> "ok"]
    ELSE IF result.shape # "object"
    THEN [result |-> result, outcome |-> "TypeError"]
    ELSE IF /\ "response_template" \notin result.keys
            /\ WorkcaseTypeOf(result) = Unhashable
    THEN [result |-> result, outcome |-> "TypeError"]
    ELSE [ result |->
             [ result EXCEPT
                 !.keys = @ \cup PolicyKeys,
                 !.regulations =
                     IF "regulations" \in result.keys THEN @
                     ELSE get_default_regulations(WorkcaseTypeOf(result)),
                 !.sla =
                     IF "sla" \in result.keys THEN @
                     ELSE get_default_sla(WorkcaseTypeOf(result)),
                 !.response_template =
                     IF "response_template" \in result.keys THEN @
                     ELSE get_default_response_template(
                              WorkcaseTypeOf(result),
                              ExtractedFieldsOf(result)) ],
           outcome |-> "ok" ]

\* a classification in progress: the parsed output, the returned result,
\* how the method ended, the table of the latest _get_default_sla call and
\* the table of the latest such call before this classification
Policy(pc, parsed, result, outcome, sla, before) ==
    [ pc |-> pc, parsed |-> parsed, result |-> result,
      outcome |-> outcome, sla |-> sla, before |-> before ]

(* ---- process_single_message: its arguments and its progress ------------- *)
\* message_id as the caller passes it: None, a value that is false in a
\* test (the empty string, the number 0), or an identifier
NoId == "None"
MessageIdInputs == {NoId, "", "ID-1"}

\* `if not message_id: message_id = f"MT-{int(time.time())}"`
MessageIdOf(message_id) ==
    IF message_id \in {NoId, ""} THEN "MT-clock" ELSE message_id

\* process_single_message: pc, arguments, the result of the conversion
\* step, the classification, the result, how it ended
Processing(pc, mode, marker, message_id, converted, workcase, result, outcome) ==
    [ pc |-> pc, mode |-> mode, marker |-> marker,
      message_id |-> message_id, converted |-> converted,
      workcase |-> workcase, result |-> result, outcome |-> outcome ]

IdleMessage ==
    Processing("idle", "", FALSE, NoId, NoResult, NoClassification,
               NoResult, "")

(* ---- process_bulk_messages: the rows of the file and the entries --------- *)
\* how process_single_message ends on a row: with a result, or with one of
\* the exceptions it lets through
RowOutcomes ==
    {"ok", "GenerationError", "TypeError", "AttributeError", "ValueError"}

RowIds == {"", "ID-1", "ID-2"}

\* a row of the file: its messageId cell and what its processing comes to
Row(message_id, outcome) == [message_id |-> message_id, outcome |-> outcome]

Files ==
    UNION { [1..n -> { Row(id, o) : id \in RowIds, o \in RowOutcomes }] :
              n \in 0..MaxRows }

Extensions == {".csv", ".CSV", ".xlsx", ".xls", ".txt"}

\* file_extension.lower()
lower(file_extension) ==
    IF file_extension = ".CSV" THEN ".csv" ELSE file_extension
Columns == SUBSET {"messageId", "message"}

\* results.append(result): the stamped result of the row
ResultEntry(row) ==
    [ kind |-> "result", message_id |-> MessageIdOf(row.message_id),
      error |-> "" ]

\* results.append({"message_id": message_id, "error": str(e), ...})
ErrorEntry(row) ==
    [ kind |-> "error", message_id |-> row.message_id,
      error |-> row.outcome ]

\* process_bulk_messages: pc, the rows of the dataframe, results, how it ended
Bulk(pc, file_extension, columns, rows, results, outcome) ==
    [ pc |-> pc, file_extension |-> file_extension, columns |-> columns,
      rows |-> rows, results |-> results, outcome |-> outcome ]

(* ---- Init ---------------------------------------------------------------- *)
(* ---- investigation_service: the columns beside the status ---------------- *)
\* the prompt's action types (two of the five) and its range of
\* suggested_days, "Suggested days to complete (1-10)"
ActionTypes == {"information_request", "cancellation"}
DayInputs == {10}

\* a suggested action as _analyze_and_create_actions reads it: its "type",
\* and "suggested_days" if the suggestion has the key
Suggestion(type, given, suggested_days) ==
    [type |-> type, given |-> given, suggested_days |-> suggested_days]

SuggestionDetails ==
    { Suggestion(type, FALSE, 0) : type \in ActionTypes }
    \cup { Suggestion(type, TRUE, d) : type \in ActionTypes, d \in DayInputs }

\* "# Create a basic action"
DefaultAction == Suggestion("information_request", TRUE, 3)

\* the suggestions of the latest create_investigation: whether the answer
\* parsed, and what it held
Suggested(parsed, items) == [parsed |-> parsed, items |-> items]
NoSuggestions == Suggested(FALSE, <<>>)

\* a deadline that does not read the suggestion
suggested_days_ignored(suggestion) == 3

\* action.get("suggested_days", 3)
suggested_days(suggestion) ==
    IF suggestion.given THEN suggestion.suggested_days ELSE 3

\* the columns of a new action beside status and completed_at; the clock
\* counts days
ActionColumns(suggestion, t) ==
    [ action_type |-> suggestion.type,
      deadline    |-> t + suggested_days(suggestion),
      notes       |-> NoNotes,
      created_at  |-> t,
      updated_at  |-> t ]

\* get_investigations: a filter that is not given
NoFilter == "None"

\* the page get_investigations returns, with the arguments of the call
Listing(returned, status, priority, limit, offset, total, items) ==
    [ returned |-> returned, status |-> status, priority |-> priority,
      limit |-> limit, offset |-> offset, total |-> total,
      investigations |-> items ]

NoListing == Listing(FALSE, NoFilter, NoFilter, 0, 0, 0, <<>>)

Init ==
    /\ investigations = <<>>
    /\ actions = <<>>
    /\ now = 1
    /\ everCompleted = {}
    /\ last = Call("init", 0, "ok")
    /\ steps = 0
    /\ generation_calls = 0
    /\ requests = [r \in Requests |-> IdleRequest]
    /\ normalized = [site |-> "none", raw |-> <<>>,
                     value |-> <<>>, stage |-> "none",
                     structure |-> NoStructure]
    /\ message = IdleMessage
    /\ audit = [rows |-> <<>>, resolution_notes |-> NoNotes,
                actions |-> <<>>, suggested |-> NoSuggestions,
                notes |-> NoNotes, listing |-> NoListing]
    /\ policy = Policy("idle", NoClassification, NoClassification, "",
                       NoSla, NoSla)
    /\ bulk = Bulk("idle", "", {}, <<>>, <<>>, "")

(* ---- the pieces of the service methods ----------------------------------- *)
\* _generate_reference_number: the set a draw is taken from
generate_reference_number == RefNumbers

\* a collaborator that sends every request a second time
call_openai_retrying(calls) == calls + 2

\* call_openai: one request to the client, whose answer is returned and whose
\* failure is raised again; the count of requests sent after the call
call_openai(calls) == calls + 1

\* a table without the unique index: no value is ever refused
ReferenceTaken_no_index(ref_number) == FALSE

\* the unique index on investigations.reference_number
ReferenceTaken(ref_number) ==
    \E i \in DOMAIN investigations :
        investigations[i].reference_number = ref_number

\* a completion check that sets the status and forgets the timestamp
check_investigation_completion_no_stamp(invs, acts, investigation_id, t) ==
    IF investigation_id \notin DOMAIN invs
    THEN invs
    ELSE LET mine == { a \in DOMAIN acts :
                         acts[a].investigation_id = investigation_id }
         IN  IF mine # {} /\ \A a \in mine : acts[a].status = "completed"
             THEN [invs EXCEPT ![investigation_id].status = "resolved"]
             ELSE invs

\* a completion check that is content with one completed action
check_investigation_completion_any(invs, acts, investigation_id, t) ==
    IF investigation_id \notin DOMAIN invs
    THEN invs
    ELSE LET completed_actions ==
                 Cardinality({ a \in ActionsOf(acts, investigation_id) :
                                 acts[a].status = "completed" })
         IN  IF completed_actions > 0
             THEN [invs EXCEPT ![investigation_id].status = "resolved",
                               ![investigation_id].resolved_at = t]
             ELSE invs

\* a completion check that looks only at the investigation's newest action
check_investigation_completion_newest(invs, acts, investigation_id, t) ==
    IF investigation_id \notin DOMAIN invs
    THEN invs
    ELSE LET mine == ActionsOf(acts, investigation_id)
         IN  IF mine # {} /\ \A a \in mine :
                    (\A b \in mine : b <= a) => acts[a].status = "completed"
             THEN [invs EXCEPT ![investigation_id].status = "resolved",
                               ![investigation_id].resolved_at = t]
             ELSE invs

\* _check_investigation_completion: the investigations table after the check
check_investigation_completion(invs, acts, investigation_id, t) ==
    IF investigation_id \notin DOMAIN invs
    THEN invs
    ELSE LET total_actions == Cardinality(ActionsOf(acts, investigation_id))
             completed_actions ==
                 Cardinality({ a \in ActionsOf(acts, investigation_id) :
                                 acts[a].status = "completed" })
         IN  IF total_actions > 0 /\ total_actions = completed_actions
             THEN [invs EXCEPT ![investigation_id].status = "resolved",
                               ![investigation_id].resolved_at = t]
             ELSE invs

\* an update that clears completed_at when the new status is not completed
UpdatedAction_clearing(action, status, t) ==
    [action EXCEPT !.status = status,
                   !.completed_at = IF status = "completed" THEN t ELSE NULL]

\* update_action_status, "# Update action": the row after the assignments
UpdatedAction(action, status, t) ==
    [action EXCEPT !.status = status,
                   !.completed_at = IF status = "completed" THEN t ELSE @]

\* an add that puts a resolved investigation back to open
InvestigationAfterAdd_reopening(inv) ==
    IF inv.status = "open" THEN [inv EXCEPT !.status = "in_progress"]
    ELSE IF inv.status = "resolved" THEN [inv EXCEPT !.status = "open"]
    ELSE inv

\* an add that never touches the investigation
InvestigationAfterAdd_untouched(inv) == inv

\* an add that moves the investigation to in_progress whatever its status
InvestigationAfterAdd_unguarded(inv) ==
    [inv EXCEPT !.status = "in_progress"]

\* add_investigation_action, "# Update investigation status if it's open"
InvestigationAfterAdd(inv) ==
    IF inv.status = "open" THEN [inv EXCEPT !.status = "in_progress"] ELSE inv

\* a resolve that sets the status and leaves resolved_at as it was
ResolvedInvestigation_unstamped(inv, t) ==
    [inv EXCEPT !.status = IF @ # "closed" THEN "resolved" ELSE "closed"]

\* a resolve that does not look at the current status
ResolvedInvestigation_unguarded(inv, t) ==
    [inv EXCEPT !.status = "resolved",
                !.resolved_at = IF @ = NULL THEN t ELSE @]

\* resolve_investigation, "# Update investigation"
ResolvedInvestigation(inv, t) ==
    [inv EXCEPT !.status = IF @ # "closed" THEN "resolved" ELSE "closed",
                !.resolved_at = IF @ = NULL THEN t ELSE @]

\* a close that files the investigation under the first reference number
ClosedInvestigation_renumbered(inv) ==
    [inv EXCEPT !.status = "closed", !.reference_number = "INV-A"]

\* close_investigation, "# Update investigation"
ClosedInvestigation(inv) ==
    [inv EXCEPT !.status = "closed"]

(* ---- actions: one per service method ------------------------------------- *)
\* every call and every tick is one step of the bounded run
Step ==
    /\ steps < MaxSteps
    /\ steps' = steps + 1
    /\ UNCHANGED <<requests, normalized, message, policy, bulk>>

\* a create that looks the message up after its first commit
create_investigation_late_lookup(message_id, priority, ref_number, resp) ==
    /\ Step
    /\ UNCHANGED <<now, everCompleted, actions, generation_calls>>
    /\ IF ReferenceTaken(ref_number)
       THEN /\ UNCHANGED investigations
            /\ last' = Call("create_investigation", message_id, "IntegrityError")
       ELSE /\ investigations' =
                   Append(investigations, Investigation(message_id, priority, ref_number))
            /\ last' = Call("create_investigation", message_id,
                            IF message_id \notin Messages
                            THEN "NotFound" ELSE "GenerationError")

create_investigation(message_id, priority, ref_number, resp) ==
    /\ Step
    /\ UNCHANGED <<now, everCompleted>>
    /\ IF message_id \notin Messages
       THEN \* raise ValueError("Message ... not found")
            /\ UNCHANGED <<investigations, actions, generation_calls>>
            /\ last' = Call("create_investigation", message_id, "NotFound")
       ELSE IF ReferenceTaken(ref_number)
       THEN \* db.commit() raises on the unique index; nothing is stored
            /\ UNCHANGED <<investigations, actions, generation_calls>>
            /\ last' = Call("create_investigation", message_id, "IntegrityError")
       ELSE \* db.add(investigation); db.commit(); then the suggestion prompt
            /\ investigations' =
                   Append(investigations, Investigation(message_id, priority, ref_number))
            /\ generation_calls' = call_openai(generation_calls)
            /\ LET investigation_id == Len(investigations) + 1
                   suggested == suggest_investigation_actions(resp)
               IN  IF resp.kind = "error"
                   THEN \* call_openai raises; the commit above stands
                        /\ actions' = actions
                        /\ last' = Call("create_investigation", message_id, "GenerationError")
                   ELSE IF \E k \in DOMAIN suggested : suggested[k] = "bad"
                   THEN \* action["type"] raises before the loop's commit
                        /\ actions' = actions
                        /\ last' = Call("create_investigation", message_id, "ActionError")
                   ELSE /\ actions' = actions \o
                               [k \in DOMAIN suggested |->
                                   InvestigationAction(investigation_id)]
                        /\ last' = Call("create_investigation", message_id, "ok")

\* an add that stores the action before it looks the investigation up
add_investigation_action_orphan(investigation_id) ==
    /\ Step
    /\ UNCHANGED <<now, everCompleted, generation_calls>>
    /\ actions' = Append(actions, InvestigationAction(investigation_id))
    /\ IF investigation_id \notin DOMAIN investigations
       THEN /\ UNCHANGED investigations
            /\ last' = Call("add_investigation_action", investigation_id, "NotFound")
       ELSE /\ investigations' =
                   [investigations EXCEPT
                       ![investigation_id] = InvestigationAfterAdd(@)]
            /\ last' = Call("add_investigation_action", investigation_id, "ok")

add_investigation_action(investigation_id) ==
    /\ Step
    /\ UNCHANGED <<now, everCompleted, generation_calls>>
    /\ IF investigation_id \notin DOMAIN investigations
       THEN /\ UNCHANGED <<investigations, actions>>
            /\ last' = Call("add_investigation_action", investigation_id, "NotFound")
       ELSE /\ actions' = Append(actions, InvestigationAction(investigation_id))
            /\ investigations' =
                   [investigations EXCEPT
                       ![investigation_id] = InvestigationAfterAdd(@)]
            /\ last' = Call("add_investigation_action", investigation_id, "ok")

\* an update whose lookup falls back to the first row of the table
update_action_status_first_row(action_id, status) ==
    /\ Step
    /\ UNCHANGED <<now, generation_calls>>
    /\ LET row == IF action_id \in DOMAIN actions THEN action_id ELSE 1
       IN  IF row \notin DOMAIN actions
           THEN /\ UNCHANGED <<investigations, actions, everCompleted>>
                /\ last' = Call("update_action_status", action_id, "NotFound")
           ELSE LET acts == [actions EXCEPT
                                ![row] = UpdatedAction(@, status, now)]
                IN  /\ actions' = acts
                    /\ everCompleted' =
                           IF status = "completed"
                           THEN everCompleted \cup {row}
                           ELSE everCompleted
                    /\ investigations' =
                           check_investigation_completion(
                               investigations, acts,
                               actions[row].investigation_id, now)
                    /\ last' = Call("update_action_status", action_id, "ok")

update_action_status(action_id, status) ==
    /\ Step
    /\ UNCHANGED <<now, generation_calls>>
    /\ IF action_id \notin DOMAIN actions
       THEN /\ UNCHANGED <<investigations, actions, everCompleted>>
            /\ last' = Call("update_action_status", action_id, "NotFound")
       ELSE LET investigation_id == actions[action_id].investigation_id
                acts == [actions EXCEPT
                            ![action_id] = UpdatedAction(@, status, now)]
            IN  /\ actions' = acts
                /\ everCompleted' =
                       IF status = "completed"
                       THEN everCompleted \cup {action_id}
                       ELSE everCompleted
                /\ investigations' =
                       check_investigation_completion(
                           investigations, acts, investigation_id, now)
                /\ last' = Call("update_action_status", action_id, "ok")

resolve_investigation(investigation_id) ==
    /\ Step
    /\ UNCHANGED <<now, everCompleted, actions, generation_calls>>
    /\ IF investigation_id \notin DOMAIN investigations
       THEN /\ UNCHANGED investigations
            /\ last' = Call("resolve_investigation", investigation_id, "NotFound")
       ELSE /\ investigations' =
                   [investigations EXCEPT
                       ![investigation_id] = ResolvedInvestigation(@, now)]
            /\ last' = Call("resolve_investigation", investigation_id, "ok")

close_investigation(investigation_id) ==
    /\ Step
    /\ UNCHANGED <<now, everCompleted, actions, generation_calls>>
    /\ IF investigation_id \notin DOMAIN investigations
       THEN /\ UNCHANGED investigations
            /\ last' = Call("close_investigation", investigation_id, "NotFound")
       ELSE /\ investigations' =
                   [investigations EXCEPT
                       ![investigation_id] = ClosedInvestigation(@)]
            /\ last' = Call("close_investigation", investigation_id, "ok")

\* time passes between two calls
Tick ==
    /\ Step
    /\ now' = now + 1
    /\ last' = Call("tick", 0, "ok")
    /\ UNCHANGED <<investigations, actions, everCompleted, generation_calls>>

InvestigationInputs == 1..(Len(investigations) + 1)
ActionInputs == 1..(Len(actions) + 1)

\* This specification follows the status columns of the two tables; the
\* notes and timestamp columns of investigations are followed by SpecAudit.
StatusOnly == UNCHANGED audit

\* No method of the lifecycle reads investigations.priority: the calls of
\* this specification carry the route's default.
Next ==
    \/ \E m \in MessageInputs, r \in generate_reference_number,
          resp \in Responses :
              create_investigation(m, DefaultPriority, r, resp) /\ StatusOnly
    \/ \E i \in InvestigationInputs :
          add_investigation_action(i) /\ StatusOnly
    \/ \E a \in ActionInputs, s \in StatusInputs :
          update_action_status(a, s) /\ StatusOnly
    \/ \E i \in InvestigationInputs : resolve_investigation(i) /\ StatusOnly
    \/ \E i \in InvestigationInputs : close_investigation(i) /\ StatusOnly
    \/ Tick /\ StatusOnly

Spec == Init /\ [][Next]_vars

(* ---- the same calls with the notes and timestamp columns ----------------- *)
\* audit.rows[i] holds resolution_notes, created_at and updated_at of
\* investigation i; audit.resolution_notes is the argument of the latest
\* resolve_investigation call.
Notes == {"n1", "n2"}

\* create_investigation, lines 45-52: the columns of a new row
AuditRow(t) ==
    [ resolution_notes |-> NoNotes, created_at |-> t, updated_at |-> t ]

Touched(row, t) == [row EXCEPT !.updated_at = t]

create_investigation_columns(m, r, resp) ==
    /\ create_investigation(m, DefaultPriority, r, resp)
    /\ audit' = [audit EXCEPT !.rows =
           IF Len(investigations') > Len(investigations)
           THEN Append(@, AuditRow(now)) ELSE @]

\* lines 374-378: updated_at moves only when the status moves to in_progress
add_investigation_action_columns(i) ==
    /\ add_investigation_action(i)
    /\ audit' = [audit EXCEPT !.rows =
           IF i \in DOMAIN investigations /\ investigations[i].status = "open"
           THEN [@ EXCEPT ![i] = Touched(@, now)] ELSE @]

\* lines 446-450: updated_at moves only when the completion check resolves
update_action_status_columns(a, s) ==
    /\ update_action_status(a, s)
    /\ audit' = [audit EXCEPT !.rows =
           IF a \in DOMAIN actions
           THEN LET i == actions[a].investigation_id
                    mine == ActionsOf(actions', i)
                IN  IF /\ i \in DOMAIN investigations
                       /\ mine # {}
                       /\ \A x \in mine : actions'[x].status = "completed"
                    THEN [@ EXCEPT ![i] = Touched(@, now)]
                    ELSE @
           ELSE @]

\* a resolve that keeps the notes of an earlier resolve
resolve_investigation_columns_first_notes(i, resolution_notes) ==
    /\ resolve_investigation(i)
    /\ audit' = [ audit EXCEPT
                    !.rows =
                        IF i \in DOMAIN investigations
                        THEN [@ EXCEPT ![i] =
                                [Touched(@, now) EXCEPT
                                    !.resolution_notes =
                                        IF @ = NoNotes THEN resolution_notes
                                        ELSE @]]
                        ELSE @,
                    !.resolution_notes = resolution_notes ]

\* resolve_investigation, lines 474-478, with all the columns it writes
resolve_investigation_columns(i, resolution_notes) ==
    /\ resolve_investigation(i)
    /\ audit' = [ audit EXCEPT
                    !.rows =
                        IF i \in DOMAIN investigations
                        THEN [@ EXCEPT ![i] =
                                [Touched(@, now) EXCEPT
                                    !.resolution_notes = resolution_notes]]
                        ELSE @,
                    !.resolution_notes = resolution_notes ]

\* lines 493-494
close_investigation_columns(i) ==
    /\ close_investigation(i)
    /\ audit' = [audit EXCEPT !.rows =
           IF i \in DOMAIN investigations
           THEN [@ EXCEPT ![i] = Touched(@, now)] ELSE @]

\* the columns followed here depend on a new action status only through
\* its being "completed" or not
CompletionInputs == {"in_progress", "completed"}

NextAudit ==
    \/ \E m \in Messages, r \in generate_reference_number,
          resp \in Responses : create_investigation_columns(m, r, resp)
    \/ \E i \in InvestigationInputs : add_investigation_action_columns(i)
    \/ \E a \in ActionInputs, s \in CompletionInputs :
          update_action_status_columns(a, s)
    \/ \E i \in InvestigationInputs, n \in Notes :
          resolve_investigation_columns(i, n)
    \/ \E i \in InvestigationInputs : close_investigation_columns(i)
    \/ Tick /\ StatusOnly

SpecAudit == Init /\ [][NextAudit]_vars

(* ---- the lifecycle with the columns of the actions ----------------------- *)
\* notes of update_action_status: `notes: Optional[str] = None`
NotesInputs == {NoNotes} \cup Notes

\* create_investigation with the suggestions it read and the columns of the
\* actions it stored
create_investigation_details(m, r, resp, details) ==
    /\ create_investigation(m, DefaultPriority, r, resp)
    /\ LET suggested == suggest_investigation_actions(resp)
           parsed == resp.kind \in {"array", "object"}
           items == [k \in DOMAIN suggested |->
                       IF parsed THEN details[k] ELSE DefaultAction]
       IN  audit' = [ audit EXCEPT
               !.rows =
                   IF Len(investigations') > Len(investigations)
                   THEN Append(@, AuditRow(now)) ELSE @,
               !.actions =
                   IF last'.result = "ok"
                   THEN @ \o [k \in DOMAIN items |->
                                 ActionColumns(items[k], now)]
                   ELSE @,
               !.suggested =
                   IF resp.kind = "error" THEN NoSuggestions
                   ELSE Suggested(parsed, items) ]

\* add_investigation_action with action_type and deadline_days (3 when the
\* caller gives none)
add_investigation_action_details(i, suggestion) ==
    /\ add_investigation_action(i)
    /\ audit' = [ audit EXCEPT
          !.rows =
              IF i \in DOMAIN investigations
                 /\ investigations[i].status = "open"
              THEN [@ EXCEPT ![i] = Touched(@, now)] ELSE @,
          !.actions =
              IF i \in DOMAIN investigations
              THEN Append(@, ActionColumns(suggestion, now)) ELSE @ ]

\* the rows of investigations after the completion check of an update
RowsAfterUpdate(a) ==
    IF a \in DOMAIN actions
    THEN LET i == actions[a].investigation_id
             mine == ActionsOf(actions', i)
         IN  IF /\ i \in DOMAIN investigations
                /\ mine # {}
                /\ \A x \in mine : actions'[x].status = "completed"
             THEN [audit.rows EXCEPT ![i] = Touched(@, now)]
             ELSE audit.rows
    ELSE audit.rows

\* an update that keeps the notes of the action when it is given none
update_action_status_keeping_notes(a, s, notes) ==
    /\ update_action_status(a, s)
    /\ audit' = [ audit EXCEPT
          !.rows = RowsAfterUpdate(a),
          !.actions =
              IF a \in DOMAIN actions
              THEN [@ EXCEPT ![a].notes = IF notes = NoNotes THEN @ ELSE notes,
                             ![a].updated_at = now]
              ELSE @,
          !.notes = notes ]

\* update_action_status with action.notes = notes and action.updated_at;
\* audit.notes keeps the argument of the latest call
update_action_status_notes(a, s, notes) ==
    /\ update_action_status(a, s)
    /\ audit' = [ audit EXCEPT
          !.rows = RowsAfterUpdate(a),
          !.actions =
              IF a \in DOMAIN actions
              THEN [@ EXCEPT ![a].notes = notes, ![a].updated_at = now]
              ELSE @,
          !.notes = notes ]

\* an answer whose suggestions all have the same type and suggested_days
SameDetails(suggestion) == [k \in 1..MaxSuggestions |-> suggestion]

NextColumns ==
    /\ steps < MaxColumnSteps
    /\ \/ \E m \in Messages, r \in generate_reference_number,
             resp \in Responses :
                 create_investigation_details(m, r, resp, SameDetails(DefaultAction))
       \/ \E i \in InvestigationInputs, suggestion \in SuggestionDetails :
             add_investigation_action_details(i, suggestion)
       \/ \E a \in ActionInputs, s \in CompletionInputs,
             notes \in NotesInputs : update_action_status_notes(a, s, notes)
       \/ \E i \in InvestigationInputs, n \in Notes :
             resolve_investigation_columns(i, n)
       \/ \E i \in InvestigationInputs : close_investigation_columns(i)
       \/ Tick /\ StatusOnly

SpecColumns == Init /\ [][NextColumns]_vars

(* ---- get_investigations --------------------------------------------------- *)
\* the arguments of the route: status and priority are optional strings,
\* limit and offset any integers (the route's default limit is 10)
StatusFilters == {NoFilter, "", "open", "resolved"}
PriorityFilters == {NoFilter, "high"}
Limits == {-1, 0, 1, 10}
Offsets == {0, 1}

\* the priorities given to create_investigation before a listing
ListedPriorities == {"medium", "high"}

\* `if status: query = query.filter(...)`, `if priority: ...`: the ids of
\* the rows the query selects
Matching(status, priority) ==
    { i \in DOMAIN investigations :
        /\ status \in {NoFilter, ""} \/ investigations[i].status = status
        /\ priority \in {NoFilter, ""}
              \/ investigations[i].priority = priority }

\* order_by(Investigation.updated_at.desc()): rows of equal updated_at come
\* in any order
Ordered(ids) ==
    { order \in [1..Cardinality(ids) -> ids] :
        \A j, k \in 1..Cardinality(ids) :
            j < k => /\ order[j] # order[k]
                     /\ audit.rows[order[j]].updated_at
                           >= audit.rows[order[k]].updated_at }

\* .offset(offset).limit(limit) on the default engine, SQLite, where a
\* negative LIMIT is no limit
Slice(order, limit, offset) ==
    SubSeq(order, offset + 1,
           IF limit < 0 THEN Len(order) ELSE Min({Len(order), offset + limit}))

\* "# Get action counts"
ActionCounts(i) ==
    [ total     |-> Cardinality(ActionsOf(actions, i)),
      pending   |-> Cardinality({ a \in ActionsOf(actions, i) :
                                    actions[a].status = "pending" }),
      completed |-> Cardinality({ a \in ActionsOf(actions, i) :
                                    actions[a].status = "completed" }) ]

\* results.append({...}): id, status, priority and action_counts of a row
Item(i) ==
    [ id |-> i, status |-> investigations[i].status,
      priority |-> investigations[i].priority,
      action_counts |-> ActionCounts(i) ]

\* get_investigations.  An engine other than SQLite refuses a negative
\* LIMIT, and the route answers with the error.
get_investigations(status, priority, limit, offset) ==
    /\ \E order \in Ordered(Matching(status, priority)) :
          LET page == Slice(order, limit, offset)
          IN  \/ /\ audit' = [audit EXCEPT !.listing =
                        Listing(TRUE, status, priority, limit, offset,
                                Cardinality(Matching(status, priority)),
                                [k \in DOMAIN page |-> Item(page[k])])]
                 /\ last' = Call("get_investigations", 0, "ok")
              \/ /\ limit < 0
                 /\ audit' = [audit EXCEPT !.listing = NoListing]
                 /\ last' = Call("get_investigations", 0, "DatabaseError")
    /\ UNCHANGED <<investigations, actions, now, everCompleted, steps,
                   generation_calls, requests, normalized, message, policy,
                   bulk>>

\* create_investigation with the priority of the call and the timestamps
create_investigation_priority(m, p, r, resp) ==
    /\ create_investigation(m, p, r, resp)
    /\ audit' = [audit EXCEPT !.rows =
           IF Len(investigations') > Len(investigations)
           THEN Append(@, AuditRow(now)) ELSE @]

\* the tables are filled by MaxListingSteps calls and ticks at most, and
\* the listing that follows ends the run
NextListing ==
    \/ /\ steps < MaxListingSteps
       /\ last.op # "get_investigations"
       /\ \/ \E m \in Messages, p \in ListedPriorities,
                r \in generate_reference_number, resp \in Responses :
                    create_investigation_priority(m, p, r, resp)
          \/ \E i \in InvestigationInputs : add_investigation_action_columns(i)
          \/ \E a \in ActionInputs, s \in CompletionInputs :
                update_action_status_columns(a, s)
          \/ \E i \in InvestigationInputs, n \in Notes :
                resolve_investigation_columns(i, n)
          \/ \E i \in InvestigationInputs : close_investigation_columns(i)
          \/ Tick /\ StatusOnly
    \/ /\ last.op # "get_investigations"
       /\ \E status \in StatusFilters, priority \in PriorityFilters,
             limit \in Limits, offset \in Offsets :
                 get_investigations(status, priority, limit, offset)

SpecListing == Init /\ [][NextListing]_vars

(* ---- create_investigation with the suggestions of the collaborator ------- *)
\* the details of the suggestions vary one by one; the clock moves between
\* the calls.  A call that stores no action reads no detail.
DetailsOf(m, r, resp) ==
    IF /\ m \in Messages
       /\ ~ReferenceTaken(r)
       /\ resp.kind \in {"array", "object"}
       /\ \A k \in DOMAIN resp.items : resp.items[k] = "ok"
    THEN [DOMAIN resp.items -> SuggestionDetails]
    ELSE {SameDetails(DefaultAction)}

NextCreate ==
    /\ steps < MaxCreates
    /\ \/ \E m \in MessageInputs, r \in generate_reference_number,
             resp \in Responses :
             \E details \in DetailsOf(m, r, resp) :
                 create_investigation_details(m, r, resp, details)
       \/ Tick /\ StatusOnly

SpecCreate == Init /\ [][NextCreate]_vars

(* ---- one client's script: create, add an action, complete it ------------- *)
\* The client starts on the empty store and stops at the first call that
\* fails; `last` is the client's latest call, the clock moves between calls.
ScenarioCreate ==
    /\ last.op = "init"
    /\ \E m \in Messages, p \in Priorities, r \in generate_reference_number,
          resp \in Responses : create_investigation(m, p, r, resp)
    /\ StatusOnly

ScenarioAdd ==
    /\ last.op = "create_investigation"
    /\ last.result = "ok"
    /\ add_investigation_action(Len(investigations))
    /\ StatusOnly

ScenarioComplete ==
    /\ last.op = "add_investigation_action"
    /\ last.result = "ok"
    /\ update_action_status(Len(actions), "completed")
    /\ StatusOnly

ScenarioTick ==
    /\ Step
    /\ now' = now + 1
    /\ UNCHANGED <<investigations, actions, everCompleted, last,
                   generation_calls, audit>>

NextScenario ==
    \/ ScenarioCreate
    \/ ScenarioAdd
    \/ ScenarioComplete
    \/ ScenarioTick

SpecScenario == Init /\ [][NextScenario]_vars

(* ---- create_investigation, worker by worker ------------------------------ *)
\* The same method, cut at its commits: between two commits of one worker
\* another worker may run.  A worker that has answered takes the next request.
Sequential ==
    UNCHANGED <<now, everCompleted, last, steps, normalized, message, audit,
                policy, bulk>>

\* lines 36-53: the message lookup, the draw, the row not yet flushed
BeginCreate(r, message_id, ref_number) ==
    /\ requests[r].pc = "idle"
    /\ requests' = [requests EXCEPT ![r] =
           IF message_id \notin Messages
           THEN Request("done", message_id, "", 0, "NotFound")
           ELSE Request("commit", message_id, ref_number, 0, "")]
    /\ UNCHANGED <<investigations, actions, generation_calls>>
    /\ Sequential

\* lines 55-57: db.add(investigation); db.commit(); db.refresh(investigation)
CommitInvestigation(r) ==
    /\ requests[r].pc = "commit"
    /\ IF ReferenceTaken(requests[r].reference_number)
       THEN /\ requests' = [requests EXCEPT ![r].pc = "done",
                                            ![r].result = "IntegrityError"]
            /\ UNCHANGED investigations
       ELSE /\ investigations' =
                   Append(investigations,
                          Investigation(requests[r].message_id,
                                        DefaultPriority,
                                        requests[r].reference_number))
            /\ requests' = [requests EXCEPT
                   ![r].pc = "analyze",
                   ![r].investigation_id = Len(investigations) + 1]
    /\ UNCHANGED <<actions, generation_calls>>
    /\ Sequential

\* lines 60, 64-101: the suggestion prompt, the actions, their one commit
AnalyzeAndCreateActions(r, resp) ==
    /\ requests[r].pc = "analyze"
    /\ generation_calls' = call_openai(generation_calls)
    /\ LET suggested == suggest_investigation_actions(resp)
       IN  IF resp.kind = "error"
           THEN /\ actions' = actions
                /\ requests' = [requests EXCEPT
                       ![r].pc = "done", ![r].result = "GenerationError"]
           ELSE IF \E k \in DOMAIN suggested : suggested[k] = "bad"
           THEN /\ actions' = actions
                /\ requests' = [requests EXCEPT
                       ![r].pc = "done", ![r].result = "ActionError"]
           ELSE /\ actions' = actions \o
                       [k \in DOMAIN suggested |->
                           InvestigationAction(requests[r].investigation_id)]
                /\ requests' = [requests EXCEPT
                       ![r].pc = "done", ![r].result = "ok"]
    /\ UNCHANGED investigations
    /\ Sequential

\* the route answers; the worker is free for the next request
Respond(r) ==
    /\ requests[r].pc = "done"
    /\ requests' = [requests EXCEPT ![r] = IdleRequest]
    /\ UNCHANGED <<investigations, actions, generation_calls>>
    /\ Sequential

NextConcurrent ==
    \/ \E r \in Requests, m \in MessageInputs,
          ref \in generate_reference_number : BeginCreate(r, m, ref)
    \/ \E r \in Requests : CommitInvestigation(r)
    \/ \E r \in Requests, resp \in Responses : AnalyzeAndCreateActions(r, resp)
    \/ \E r \in Requests : Respond(r)

SpecConcurrent == Init /\ [][NextConcurrent]_vars

(* ---- concurrent requests: update_action_status --------------------------- *)
\* Each worker runs one update_action_status; every statement reads what is
\* committed at that moment, and every commit is atomic.
MaxSetupSteps == 2

\* what a step of a request leaves alone
Statement ==
    UNCHANGED <<now, last, steps, generation_calls, normalized, message,
                audit, policy, bulk>>

\* line 402: the lookup of the action
BeginUpdate(r, action_id, status) ==
    /\ requests[r].pc = "idle"
    /\ requests' = [requests EXCEPT ![r] =
           IF action_id \notin DOMAIN actions
           THEN [IdleRequest EXCEPT !.pc = "done", !.action_id = action_id,
                                    !.status = status, !.result = "NotFound"]
           ELSE [IdleRequest EXCEPT
                    !.pc = "commit", !.action_id = action_id,
                    !.status = status,
                    !.read_status = actions[action_id].status,
                    !.investigation_id = actions[action_id].investigation_id]]
    /\ UNCHANGED <<investigations, actions, everCompleted>>
    /\ Statement

\* lines 407-415: the assignments, db.commit(), db.refresh(action)
CommitAction(r) ==
    /\ requests[r].pc = "commit"
    /\ actions' = [actions EXCEPT ![requests[r].action_id] =
                      UpdatedAction(@, requests[r].status, now)]
    /\ everCompleted' = IF requests[r].status = "completed"
                        THEN everCompleted \cup {requests[r].action_id}
                        ELSE everCompleted
    /\ requests' = [requests EXCEPT ![r].pc = "check"]
    /\ UNCHANGED investigations
    /\ Statement

\* lines 431-438: the investigation is read and its actions are counted
CountTotal(r) ==
    /\ requests[r].pc = "check"
    /\ requests' = [requests EXCEPT
           ![r].pc = "count",
           ![r].total_actions =
               Cardinality(ActionsOf(actions, requests[r].investigation_id))]
    /\ UNCHANGED <<investigations, actions, everCompleted>>
    /\ Statement

\* a count that does not see the row the request itself has written
CompletedActions_others(r) ==
    Cardinality({ a \in ActionsOf(actions, requests[r].investigation_id) :
                    /\ actions[a].status = "completed"
                    /\ a # requests[r].action_id })

\* lines 440-443: the count of the completed actions, as committed now
CompletedActions(r) ==
    Cardinality({ a \in ActionsOf(actions, requests[r].investigation_id) :
                    actions[a].status = "completed" })

CountCompleted(r) ==
    /\ requests[r].pc = "count"
    /\ requests' = [requests EXCEPT
           ![r].pc = "resolve",
           ![r].completed_actions = CompletedActions(r)]
    /\ UNCHANGED <<investigations, actions, everCompleted>>
    /\ Statement

\* lines 446-450 and 420: the comparison, the write and its commit
ResolveIfComplete(r) ==
    /\ requests[r].pc = "resolve"
    /\ investigations' =
          IF /\ requests[r].total_actions > 0
             /\ requests[r].total_actions = requests[r].completed_actions
          THEN [investigations EXCEPT
                   ![requests[r].investigation_id].status = "resolved",
                   ![requests[r].investigation_id].resolved_at = now]
          ELSE investigations
    /\ requests' = [requests EXCEPT ![r].pc = "done", ![r].result = "ok"]
    /\ UNCHANGED <<actions, everCompleted>>
    /\ Statement

\* the tables are filled by calls that run alone, MaxSetupSteps at most,
\* before the two requests arrive
NextCompletion ==
    \/ /\ steps < MaxSetupSteps
       /\ \A r \in Requests : requests[r].pc = "idle"
       /\ \/ \E r \in generate_reference_number, resp \in Responses :
                create_investigation(1, DefaultPriority, r, resp) /\ StatusOnly
          \/ \E i \in DOMAIN investigations :
                add_investigation_action(i) /\ StatusOnly
          \/ \E a \in DOMAIN actions, s \in CompletionInputs :
                update_action_status(a, s) /\ StatusOnly
    \/ \E r \in Requests, a \in ActionInputs, s \in CompletionInputs :
          BeginUpdate(r, a, s)
    \/ \E r \in Requests : CommitAction(r)
    \/ \E r \in Requests : CountTotal(r)
    \/ \E r \in Requests : CountCompleted(r)
    \/ \E r \in Requests : ResolveIfComplete(r)

SpecCompletion == Init /\ [][NextCompletion]_vars

(* ---- mt_service: the parse chains and process_single_message ------------ *)
Lifecycle ==
    UNCHANGED <<investigations, actions, now, everCompleted, last, steps,
                requests, audit>>

\* one of the four parse chains receives a text from the collaborator
Normalize(site) ==
    /\ normalized.site = "none"
    /\ message.pc = "idle"
    /\ \E response \in Texts :
          normalized' = [ site  |-> site,
                          raw   |-> response,
                          value |-> ParseAt(site, response).value,
                          stage |-> ParseAt(site, response).stage,
                          structure |->
                              IF ParseAt(site, response).stage = "default"
                              THEN basic_structure(site, response)
                              ELSE NoStructure ]
    /\ UNCHANGED <<message, generation_calls, policy, bulk>>
    /\ Lifecycle

\* `mode == "convert"` or anything else
Modes == {"convert", "extract"}

\* "# Add metadata to result": item assignment needs a dict
Stamped(result, message_id) ==
    IF result.shape # "object"
    THEN [result |-> result, outcome |-> "TypeError"]
    ELSE [ result |-> [ result EXCEPT
                          !.message_id = MessageIdOf(message_id),
                          !.processing_time = "measured",
                          !.processed_at = "utcnow" ],
           outcome |-> "ok" ]

\* the keys of a returned classification
KeysOf(workcase) ==
    workcase.keys \cup (IF workcase.workcase_type # Absent
                        THEN {"workcase_type"} ELSE {})

\* a merge that keeps the attributes already extracted
Merged_keeping(result, workcase) ==
    IF result.shape # "object"
    THEN [result |-> result, outcome |-> "TypeError"]
    ELSE IF result.attributes = "other"
    THEN [result |-> result, outcome |-> "AttributeError"]
    ELSE IF result.attributes = "object" /\ workcase.shape # "object"
    THEN [result |-> result, outcome |-> "ValueError"]
    ELSE IF workcase.shape # "object"
    THEN [result |-> [result EXCEPT !.attributes = "other"],
          outcome |-> "ok"]
    ELSE [ result |->
             [ result EXCEPT
                 !.attributes = "object",
                 !.items = @ \cup
                     { <<key, "classification">> :
                         key \in { k \in KeysOf(workcase) :
                                     <<k, "extraction">> \notin @ } } ],
           outcome |-> "ok" ]

\* `if "attributes" in result: result["attributes"].update(workcase_info)
\*  else: result["attributes"] = workcase_info`.  A result that is not a
\* dict fails at the test or at the item assignment, attributes that are
\* not a dict have no update, and update takes no string.
Merged(result, workcase) ==
    IF result.shape # "object"
    THEN [result |-> result, outcome |-> "TypeError"]
    ELSE IF result.attributes = "other"
    THEN [result |-> result, outcome |-> "AttributeError"]
    ELSE IF result.attributes = "object" /\ workcase.shape # "object"
    THEN [result |-> result, outcome |-> "ValueError"]
    ELSE IF workcase.shape # "object"
    THEN [result |-> [result EXCEPT !.attributes = "other"],
          outcome |-> "ok"]
    ELSE [ result |->
             [ result EXCEPT
                 !.attributes = "object",
                 !.items = { item \in @ : item[1] \notin KeysOf(workcase) }
                             \cup { <<key, "classification">> :
                                      key \in KeysOf(workcase) } ],
           outcome |-> "ok" ]

\* `if mode == "convert": ... else: ...`
Converted(mode, answer) ==
    Result(IF mode = "convert"
           THEN convert_mt_to_mx(answer).value
           ELSE extract_attributes(answer).value)

\* the parsed classification as "# Add additional information" reads it
Decode(value) ==
    IF value = <<NamesToken>>
    THEN Classification("names", {}, Absent, NoFields)
    ELSE IF Shape(value) # "object"
    THEN Classification(Shape(value), {}, Absent, NoFields)
    ELSE CASE Member(value, {"T", "u"}) = "T" ->
                Classification("object", {}, Unhashable, NoFields)
           [] Member(value, {"T", "u"}) = "u" ->
                Classification("object", {}, "UNKNOWN", Dict(<<>>))
           [] OTHER ->
                Classification("object", {}, Absent, NoFields)

\* _process_mt199_stp_failure after its call returned: the parse chain, then
\* "# Add additional information for workflows"
Workcase(answer) ==
    add_workflow_information(Decode(classify_workcase(answer).value))

\* process_single_message up to the return of _convert_mt_to_mx or
\* _extract_attributes, and to its own return when the text has no 199 marker
\* (marker: `"199" in message_content[:20]`)
process_single_message(mode, marker, message_id) ==
    /\ message.pc = "idle"
    /\ normalized.site = "none"
    /\ generation_calls' = call_openai(generation_calls)
    /\ \E answer \in Answers \cup {CallFailed} :
          message' =
            IF answer = CallFailed
            THEN Processing("done", mode, marker, message_id, NoResult,
                            NoClassification, NoResult, "GenerationError")
            ELSE LET converted == Converted(mode, answer)
                     stamped == Stamped(converted, message_id)
                 IN  IF marker
                     THEN Processing("mt199", mode, marker, message_id,
                                     converted, NoClassification,
                                     converted, "")
                     ELSE Processing("done", mode, marker, message_id,
                                     converted, NoClassification,
                                     stamped.result, stamped.outcome)
    /\ UNCHANGED <<normalized, policy, bulk>>
    /\ Lifecycle

\* process_single_message from "# Check for MT199 specific processing" on
process_mt199_stp_failure ==
    /\ message.pc = "mt199"
    /\ generation_calls' = call_openai(generation_calls)
    /\ \E answer \in WorkcaseAnswers \cup {CallFailed} :
          message' =
            IF answer = CallFailed
            THEN [message EXCEPT !.pc = "done", !.outcome = "GenerationError"]
            ELSE LET workcase == Workcase(answer)
                     merged == Merged(message.result, workcase.result)
                     stamped == Stamped(merged.result, message.message_id)
                 IN  IF workcase.outcome # "ok"
                     THEN [message EXCEPT !.pc = "done",
                                          !.outcome = workcase.outcome]
                     ELSE IF merged.outcome # "ok"
                     THEN [message EXCEPT !.pc = "done",
                                          !.workcase = workcase.result,
                                          !.outcome = merged.outcome]
                     ELSE [message EXCEPT !.pc = "done",
                                          !.workcase = workcase.result,
                                          !.result = stamped.result,
                                          !.outcome = stamped.outcome]
    /\ UNCHANGED <<normalized, policy, bulk>>
    /\ Lifecycle

NextMessages ==
    \/ \E site \in Sites : Normalize(site)
    \/ \E mode \in Modes, marker \in BOOLEAN, message_id \in MessageIdInputs :
          process_single_message(mode, marker, message_id)
    \/ process_mt199_stp_failure

SpecMessages == Init /\ [][NextMessages]_vars

(* ---- the requests sent to the collaborator -------------------------------- *)
\* the two methods that prompt the collaborator, in the order of the
\* workflow: a message is processed (and stored by its route), then
\* investigations are created for it, MaxCreates of them at most
NextCalls ==
    \/ \E mode \in Modes, marker \in BOOLEAN, message_id \in MessageIdInputs :
          process_single_message(mode, marker, message_id)
    \/ process_mt199_stp_failure
    \/ /\ message.pc = "done"
       /\ steps < MaxCreates
       /\ \E m \in MessageInputs, r \in generate_reference_number,
             resp \in Responses :
                 create_investigation(m, DefaultPriority, r, resp) /\ StatusOnly

SpecCalls == Init /\ [][NextCalls]_vars

(* ---- mt_service: successive classifications filled from the tables ------- *)
\* lines 265-278 applied to a parsed classification
AddWorkflowInformation ==
    /\ policy.pc = "idle"
    /\ \E parsed \in ClassificationInputs :
          LET returned == add_workflow_information(parsed)
          IN  policy' =
                Policy("done", parsed, returned.result, returned.outcome,
                       IF parsed.shape = "object" /\ "sla" \notin parsed.keys
                       THEN get_default_sla(WorkcaseTypeOf(parsed))
                       ELSE policy.sla,
                       policy.sla)
    /\ UNCHANGED <<normalized, message, generation_calls, bulk>>
    /\ Lifecycle

\* the method has returned or raised; the service keeps nothing of the call
ReturnClassification ==
    /\ policy.pc = "done"
    /\ policy' = Policy("idle", NoClassification, NoClassification, "",
                        policy.sla, NoSla)
    /\ UNCHANGED <<normalized, message, generation_calls, bulk>>
    /\ Lifecycle

NextPolicy ==
    \/ AddWorkflowInformation
    \/ ReturnClassification

SpecPolicy == Init /\ [][NextPolicy]_vars

(* ---- mt_service: process_bulk_messages, row by row ----------------------- *)
Stateless ==
    /\ UNCHANGED <<normalized, message, generation_calls, policy>>
    /\ Lifecycle

\* a call that starts on the rows whatever the columns of the file
process_bulk_messages_unchecked(file_extension, columns) ==
    /\ bulk.pc = "idle"
    /\ \E file \in Files :
          bulk' =
            IF lower(file_extension) \notin {".csv", ".xlsx", ".xls"}
            THEN Bulk("done", file_extension, columns, <<>>, <<>>, "ValueError")
            ELSE Bulk("rows", file_extension, columns, file, <<>>, "")
    /\ Stateless

\* lines 76-88: the file is parsed into a dataframe, whose columns are
\* checked before the loop over its rows begins
process_bulk_messages(file_extension, columns) ==
    /\ bulk.pc = "idle"
    /\ \E file \in Files :
          bulk' =
            IF lower(file_extension) \notin {".csv", ".xlsx", ".xls"}
            THEN Bulk("done", file_extension, columns, <<>>, <<>>, "ValueError")
            ELSE IF ~({"messageId", "message"} \subseteq columns)
            THEN Bulk("done", file_extension, columns, file, <<>>, "ValueError")
            ELSE Bulk("rows", file_extension, columns, file, <<>>, "")
    /\ Stateless

\* line 94: process_single_message sends the collaborator one request, or
\* two for a text with the 199 marker
RowCalls ==
    /\ generation_calls' \in { call_openai(generation_calls),
                               call_openai(call_openai(generation_calls)) }
    /\ UNCHANGED <<normalized, message, policy>>
    /\ Lifecycle

\* a loop that ends at the first row that fails
process_row_aborting ==
    /\ bulk.pc = "rows"
    /\ Len(bulk.results) < Len(bulk.rows)
    /\ LET row == bulk.rows[Len(bulk.results) + 1]
       IN  bulk' =
             IF row.outcome = "ok"
             THEN [bulk EXCEPT !.results = Append(@, ResultEntry(row))]
             ELSE [bulk EXCEPT !.results = Append(@, ErrorEntry(row)),
                               !.pc = "done", !.outcome = "ok"]
    /\ RowCalls

\* lines 89-102: one turn of the loop
process_row ==
    /\ bulk.pc = "rows"
    /\ Len(bulk.results) < Len(bulk.rows)
    /\ LET row == bulk.rows[Len(bulk.results) + 1]
       IN  bulk' =
             [bulk EXCEPT !.results =
                 Append(@, IF row.outcome = "ok"
                           THEN ResultEntry(row) ELSE ErrorEntry(row))]
    /\ RowCalls

\* line 104: return results
return_results ==
    /\ bulk.pc = "rows"
    /\ Len(bulk.results) = Len(bulk.rows)
    /\ bulk' = [bulk EXCEPT !.pc = "done", !.outcome = "ok"]
    /\ Stateless

NextBulk ==
    \/ \E file_extension \in Extensions, columns \in Columns :
          process_bulk_messages(file_extension, columns)
    \/ process_row
    \/ return_results

SpecBulk == Init /\ [][NextBulk]_vars

(* ======================================================================== *)
(* Properties                                                               *)
(* ======================================================================== *)
Returned(op) == last'.op = op /\ last'.result = "ok"

AllCompleted(acts, investigation_id) ==
    /\ ActionsOf(acts, investigation_id) # {}
    /\ \A a \in ActionsOf(acts, investigation_id) :
           acts[a].status = "completed"

\* C1: closed is terminal: once an investigation is closed, no call changes
\* its status to anything other than closed.
ClosedIsTerminal ==
    [][ \A i \in DOMAIN investigations :
          investigations[i].status = "closed"
              => investigations'[i].status = "closed" ]_vars

\* C2: resolved_at is write-once: once non-null, no call changes its value.
ResolvedAtWriteOnce ==
    [][ \A i \in DOMAIN investigations :
          investigations[i].resolved_at # NULL
              => investigations'[i].resolved_at
                     = investigations[i].resolved_at ]_vars

\* C3: automatic resolution: when update_action_status returns and the owning
\* investigation, open or in_progress before the call, now has at least one
\* action and all of them completed, it is resolved with resolved_at set.
AutomaticResolution ==
    [][ Returned("update_action_status") =>
          LET i == actions'[last'.id].investigation_id
          IN  ( /\ investigations[i].status \in {"open", "in_progress"}
                /\ AllCompleted(actions', i) )
              => /\ investigations'[i].status = "resolved"
                 /\ investigations'[i].resolved_at # NULL ]_vars

\* C3 witness: create with two suggestions, then both actions completed.
AutomaticResolutionWitness ==
    /\ steps = 3
    /\ last = Call("update_action_status", 2, "ok")
    /\ Len(actions) = 2
    /\ AllCompleted(actions, 1)
    /\ investigations[1].status = "resolved"
    /\ investigations[1].resolved_at # NULL

\* C4: no partial persistence: a create_investigation that fails in the
\* generative call, or on a suggestion it cannot turn into an action, leaves
\* no investigation and no action of that call in storage.
NoPartialPersistence ==
    [][ ( /\ last'.op = "create_investigation"
          /\ last'.result \in {"GenerationError", "ActionError"} )
          => /\ investigations' = investigations
             /\ actions' = actions ]_vars

\* C5: action terminal states: a completed or cancelled action keeps its
\* status under every later call, and a change between two of the four
\* statuses moves forward along pending -> in_progress -> completed or to
\* cancelled from pending or in_progress.
ActionTransitions ==
    { <<"pending", "in_progress">>, <<"in_progress", "completed">>,
      <<"pending", "completed">>,
      <<"pending", "cancelled">>, <<"in_progress", "cancelled">> }

ActionTerminalStates ==
    [][ \A a \in DOMAIN actions :
          /\ actions[a].status \in {"completed", "cancelled"}
                => actions'[a].status = actions[a].status
          /\ ( /\ actions'[a].status # actions[a].status
               /\ actions[a].status \in ActionStatuses
               /\ actions'[a].status \in ActionStatuses )
                => <<actions[a].status, actions'[a].status>>
                       \in ActionTransitions ]_vars

\* C6: resolve_investigation sets the status to resolved from open,
\* in_progress or resolved and leaves a closed investigation closed.
ResolveKeepsClosed ==
    [][ Returned("resolve_investigation") =>
          LET i == last'.id
          IN  investigations'[i].status =
                  IF investigations[i].status = "closed"
                  THEN "closed" ELSE "resolved" ]_vars

\* C6 witness: create, close, resolve: the investigation is still closed.
ResolveKeepsClosedWitness ==
    /\ steps = 3
    /\ last = Call("resolve_investigation", 1, "ok")
    /\ investigations[1].status = "closed"

\* C7: after a successful add_investigation_action the investigation is not
\* open (an open one became in_progress) and the new action is stored pending.
AddActionAdvancesOpen ==
    [][ Returned("add_investigation_action") =>
          LET i == last'.id
          IN  /\ investigations'[i].status # "open"
              /\ investigations[i].status = "open"
                    => investigations'[i].status = "in_progress"
              /\ actions' = Append(actions, InvestigationAction(i))
              /\ actions'[Len(actions')].status = "pending" ]_vars

\* C7 witness: create, then the first add on the open investigation.
AddActionAdvancesOpenWitness ==
    /\ steps = 2
    /\ last = Call("add_investigation_action", 1, "ok")
    /\ investigations[1].status = "in_progress"
    /\ actions[Len(actions)].status = "pending"

\* C8: one-way ratchet: no call moves a resolved or closed investigation to
\* open or in_progress; an add on it stores the pending action and keeps the
\* status; an update to a non-completed status keeps a resolved one resolved.
OneWayRatchet ==
    [][ /\ \A i \in DOMAIN investigations :
              investigations[i].status \in {"resolved", "closed"}
                  => investigations'[i].status \in {"resolved", "closed"}
        /\ Returned("add_investigation_action") =>
              LET i == last'.id
              IN  investigations[i].status \in {"resolved", "closed"}
                      => /\ investigations'[i].status
                               = investigations[i].status
                         /\ actions' = Append(actions, InvestigationAction(i))
        /\ Returned("update_action_status") =>
              LET i == actions'[last'.id].investigation_id
              IN  ( /\ investigations[i].status = "resolved"
                    /\ actions'[last'.id].status # "completed" )
                      => investigations'[i].status = "resolved" ]_vars

\* C8 witness: create, resolve, add: the investigation stays resolved and
\* holds the new pending action.
OneWayRatchetWitness ==
    /\ steps = 3
    /\ last = Call("add_investigation_action", 1, "ok")
    /\ investigations[1].status = "resolved"
    /\ actions[Len(actions)] = InvestigationAction(1)

\* C9: completed_at tracks completion: update_action_status stamps
\* completed_at exactly when the new status is completed, completed_at is
\* non-null exactly for the actions ever set to completed, and no call
\* resets a non-null completed_at to null.
CompletedAtTracksCompletion ==
    [][ /\ \A a \in DOMAIN actions' :
              actions'[a].completed_at # NULL <=> a \in everCompleted'
        /\ \A a \in DOMAIN actions :
              actions[a].completed_at # NULL
                  => actions'[a].completed_at # NULL
        /\ Returned("update_action_status") =>
              LET a == last'.id
              IN  /\ actions'[a].status = "completed"
                        => actions'[a].completed_at = now
                  /\ actions'[a].status # "completed"
                        => actions'[a].completed_at = actions[a].completed_at
        /\ \A a \in DOMAIN actions :
              ~(Returned("update_action_status") /\ last'.id = a)
                  => actions'[a].completed_at = actions[a].completed_at ]_vars

\* C9 witness: an action completed earlier and then moved to another status
\* still carries its completed_at.
CompletedAtTracksCompletionWitness ==
    /\ last.op = "update_action_status"
    /\ last.result = "ok"
    /\ actions[last.id].status = "pending"
    /\ actions[last.id].completed_at # NULL
    /\ actions[last.id].completed_at < now

\* C10: action status domain: every stored action's status is one of
\* pending, in_progress, completed, cancelled.
ActionStatusDomain ==
    \A a \in DOMAIN actions : actions[a].status \in ActionStatuses

\* C11: reference-number uniqueness: in every reachable state, the states
\* reached by interleaved create_investigation requests that drew the same
\* reference number included, no two stored investigations share their
\* reference_number.
ReferenceNumberUnique ==
    \A i, j \in DOMAIN investigations :
        i # j => investigations[i].reference_number
                     # investigations[j].reference_number

\* C11 witness: two workers drew the same number; one row is stored and the
\* other worker's commit was refused.
ReferenceNumberUniqueWitness ==
    /\ requests["r1"].reference_number = requests["r2"].reference_number
    /\ requests["r1"].result = "IntegrityError"
    /\ requests["r2"].pc \in {"analyze", "done"}
    /\ requests["r2"].investigation_id \in DOMAIN investigations
    /\ Len(investigations) = 1

\* C12: collision retry: a create_investigation whose insert collides on the
\* reference number draws a fresh number and retries, so the call does not
\* end on the collision while an unused reference number remains.
CollisionRetry ==
    ( /\ last.op = "create_investigation"
      /\ last.result = "IntegrityError" )
        => \A ref_number \in RefNumbers : ReferenceTaken(ref_number)

\* C13: automatic resolution only on full completion: a call other than
\* resolve_investigation changes an investigation's status to resolved only
\* if, after the call, the investigation has at least one action and all its
\* actions are completed; a new investigation is not stored resolved.
ResolvedOnlyWhenComplete ==
    [][ /\ \A i \in DOMAIN investigations :
              ( /\ investigations[i].status # "resolved"
                /\ investigations'[i].status = "resolved"
                /\ last'.op # "resolve_investigation" )
                  => AllCompleted(actions', i)
        /\ \A i \in DOMAIN investigations' \ DOMAIN investigations :
              investigations'[i].status # "resolved" ]_vars

\* C13 witness: of two investigations the one without actions is still open
\* and the one whose only action was just completed is resolved.
ResolvedOnlyWhenCompleteWitness ==
    /\ Len(investigations) = 2
    /\ ActionsOf(actions, 1) = {}
    /\ investigations[1].status = "open"
    /\ last = Call("update_action_status", 1, "ok")
    /\ ActionsOf(actions, 2) = {1}
    /\ actions[1].status = "completed"
    /\ investigations[2].status = "resolved"

\* C15: add_investigation_action with an investigation id that is not stored
\* fails with NotFound and changes neither table.
AddActionUnknownInvestigation ==
    [][ ( /\ last'.op = "add_investigation_action"
          /\ last'.id \notin DOMAIN investigations )
          => /\ last'.result = "NotFound"
             /\ actions' = actions
             /\ investigations' = investigations ]_vars

\* C15 witness: an add for the id after the last stored investigation was
\* refused, and the tables hold what the create before it stored.
AddActionUnknownInvestigationWitness ==
    /\ steps = 2
    /\ Len(investigations) = 1
    /\ Len(actions) = 1
    /\ last = Call("add_investigation_action", 2, "NotFound")

\* C16: update_action_status with an action id that is not stored fails with
\* NotFound and changes no action and no investigation.
UpdateUnknownAction ==
    [][ ( /\ last'.op = "update_action_status"
          /\ last'.id \notin DOMAIN actions )
          => /\ last'.result = "NotFound"
             /\ actions' = actions
             /\ investigations' = investigations ]_vars

\* C16 witness: an update for the id after the last stored action was
\* refused while the stored action is still pending and its investigation
\* still open.
UpdateUnknownActionWitness ==
    /\ steps = 2
    /\ Len(actions) = 1
    /\ last = Call("update_action_status", 2, "NotFound")
    /\ actions[1].status = "pending"
    /\ investigations[1].status = "open"

\* C17: create_investigation for a message id that is not stored fails with
\* NotFound whatever reference number would be drawn and whatever the
\* generative collaborator would answer: no row is stored, no reference
\* number is taken, and call_openai is not called.
CreateUnknownMessage ==
    [][ ( /\ last'.op = "create_investigation"
          /\ last'.id \notin Messages )
          => /\ last'.result = "NotFound"
             /\ investigations' = investigations
             /\ actions' = actions
             /\ generation_calls' = generation_calls
             /\ \A ref_number \in RefNumbers :
                    ReferenceTaken(ref_number)' = ReferenceTaken(ref_number)
       ]_vars

\* C17 witness: after one stored investigation (one generative call), a
\* create for an unknown message was refused and left that state.
CreateUnknownMessageWitness ==
    /\ steps = 2
    /\ last = Call("create_investigation", 2, "NotFound")
    /\ Len(investigations) = 1
    /\ generation_calls = 1

\* C14 (as the scenario is written): create_investigation for a stored
\* message with priority high yields status open; one add_investigation_action
\* then yields in_progress; update_action_status(completed) on the added
\* action then yields resolved with resolved_at set.
LifecycleScenario ==
    /\ (last.op = "create_investigation" /\ last.result = "ok")
          => investigations[1].status = "open"
    /\ last.op = "add_investigation_action"
          => investigations[1].status = "in_progress"
    /\ last.op = "update_action_status"
          => /\ investigations[1].status = "resolved"
             /\ investigations[1].resolved_at # NULL

\* C14 (amended): the same script; the last call yields resolved with
\* resolved_at set exactly when create_investigation stored no suggested
\* action, so that the added action is the investigation's only one;
\* otherwise the investigation stays in_progress with resolved_at null.
LifecycleScenarioWithSuggestions ==
    /\ (last.op = "create_investigation" /\ last.result = "ok")
          => /\ investigations[1].status = "open"
             /\ investigations[1].resolved_at = NULL
    /\ last.op = "add_investigation_action"
          => /\ investigations[1].status = "in_progress"
             /\ actions[Len(actions)] = InvestigationAction(1)
    /\ last.op = "update_action_status"
          => /\ actions[last.id].status = "completed"
             /\ IF ActionsOf(actions, 1) = {last.id}
                THEN /\ investigations[1].status = "resolved"
                     /\ investigations[1].resolved_at # NULL
                     /\ investigations[1].resolved_at <= now
                ELSE /\ investigations[1].status = "in_progress"
                     /\ investigations[1].resolved_at = NULL

\* C14 witness: priority high, no suggested action, the added action
\* completed one tick after the create: resolved at that time.
LifecycleScenarioWitness ==
    /\ last = Call("update_action_status", 1, "ok")
    /\ investigations[1].priority = "high"
    /\ ActionsOf(actions, 1) = {1}
    /\ investigations[1].status = "resolved"
    /\ investigations[1].resolved_at = 2

\* the brackets a site looks for, and the result it falls back to
OpeningOf(site) == IF site = "suggest_investigation_actions" THEN "[" ELSE "{"
ClosingOf(site) == IF site = "suggest_investigation_actions" THEN "]" ELSE "}"

DefaultOf(site) ==
    CASE site = "convert_mt_to_mx"          -> DefaultConversion
      [] site = "extract_attributes"        -> DefaultExtraction
      [] site = "process_mt199_stp_failure" -> DefaultWorkcase
      [] OTHER                              -> DefaultActions

Positions(text, token) == { i \in DOMAIN text : text[i] = token }

\* the substring from the first opening to the last closing bracket
Blob(text, site) ==
    LET opens  == Positions(text, OpeningOf(site))
        closes == Positions(text, ClosingOf(site))
    IN  IF opens = {} \/ closes = {} \/ Max(closes) < Min(opens)
        THEN <<>>
        ELSE SubSeq(text, Min(opens), Max(closes))

\* the value of a strictly parsed text in the shape the site expects
InShape(value, site) ==
    IF site = "suggest_investigation_actions" /\ Shape(value) # "list"
    THEN <<"[">> \o value \o <<"]">>
    ELSE value

\* C18: fallback chain: for every text, at every parse site, the whole text
\* is parsed first and, if it parses, its value is the result (not a
\* fallback); otherwise the substring from the first opening bracket to the
\* last closing bracket is parsed and, if it parses, that blob is the result;
\* only a text that fails both yields the site's default, as fallback.
FallbackChain ==
    normalized.site # "none" =>
        LET text == normalized.raw
            site == normalized.site
            blob == Blob(text, site)
        IN  IF IsValue(Compact(text))
            THEN /\ normalized.stage = "strict"
                 /\ normalized.value = InShape(Compact(text), site)
            ELSE IF IsValue(Compact(blob))
            THEN /\ normalized.stage = "embedded"
                 /\ normalized.value = Compact(blob)
            ELSE /\ normalized.stage = "default"
                 /\ normalized.value = DefaultOf(site)

\* C18 witness: an object between two words of prose, white space inside:
\* the conversion site answers the object.
FallbackChainWitness ==
    /\ normalized.site = "convert_mt_to_mx"
    /\ normalized.raw = <<"w", "{", " ", "}">>
    /\ normalized.stage = "embedded"
    /\ normalized.value = <<"{", "}">>

\* C19: shape guarantee: whatever the text, a site that expects an object
\* yields an object and the site that expects a list yields a list; a
\* strictly parsed value of the other shape is never the result as it is.
ShapeGuarantee ==
    normalized.site # "none" =>
        Shape(normalized.value) =
            IF normalized.site = "suggest_investigation_actions"
            THEN "list" ELSE "object"

\* C20: malformed-but-present output never fails the operation: a
\* process_single_message in which every call of the collaborator returned
\* text ends with a stamped result; it fails only when a call itself failed.
MalformedOutputNeverFails ==
    message.pc = "done" =>
        message.outcome \in {"ok", "GenerationError"}


\* the notes and timestamp columns run parallel to the investigations table
AuditTyped ==
    /\ Len(audit.rows) = Len(investigations)
    /\ \A i \in DOMAIN audit.rows :
           /\ audit.rows[i].created_at <= audit.rows[i].updated_at
           /\ audit.rows[i].updated_at <= now

\* C27: resolve_investigation always overwrites resolution_notes with the
\* supplied notes and sets resolved_at only when it was null; on an
\* investigation that is already resolved the call changes none of the
\* investigation's timestamps (created_at, updated_at, resolved_at) and
\* changes only the notes.
ResolveChangesOnlyNotes ==
    [][ Returned("resolve_investigation") =>
          LET i == last'.id IN
          /\ audit'.rows[i].resolution_notes = audit'.resolution_notes
          /\ investigations'[i].resolved_at =
                 IF investigations[i].resolved_at = NULL THEN now
                 ELSE investigations[i].resolved_at
          /\ investigations[i].status = "resolved"
                 => /\ investigations' = investigations
                    /\ audit'.rows =
                          [audit.rows EXCEPT ![i].resolution_notes =
                               audit'.resolution_notes] ]_vars

\* C27 (amended): resolve_investigation always overwrites resolution_notes
\* with the supplied notes, sets resolved_at only when it was null, never
\* changes created_at and always sets updated_at to the time of the call; on
\* an investigation that is already resolved the call changes the notes and
\* updated_at and nothing else in either table.
ResolveChangesNotesAndUpdatedAt ==
    [][ Returned("resolve_investigation") =>
          LET i == last'.id IN
          /\ audit'.rows[i].resolution_notes = audit'.resolution_notes
          /\ investigations'[i].resolved_at =
                 IF investigations[i].resolved_at = NULL THEN now
                 ELSE investigations[i].resolved_at
          /\ audit'.rows[i].created_at = audit.rows[i].created_at
          /\ audit'.rows[i].updated_at = now
          /\ actions' = actions
          /\ \A j \in DOMAIN investigations \ {i} :
                 /\ investigations'[j] = investigations[j]
                 /\ audit'.rows[j] = audit.rows[j]
          /\ investigations[i].status = "resolved"
                 => investigations' = investigations ]_vars

\* a second resolve, later than the first, has replaced the notes
ResolveChangesNotesWitness ==
    /\ last = Call("resolve_investigation", 1, "ok")
    /\ investigations[1].status = "resolved"
    /\ investigations[1].resolved_at = 1
    /\ audit.rows[1].created_at = 1
    /\ audit.rows[1].updated_at = 2
    /\ audit.rows[1].resolution_notes = "n2"
    /\ ActionsOf(actions, 1) = {}


\* C30: identity fields are immutable: reference_number and message_id of a
\* stored investigation are those given at creation, and no later call
\* (add_investigation_action, update_action_status, resolve_investigation,
\* close_investigation, or another create_investigation) changes them.
IdentityImmutable ==
    [][ \A i \in DOMAIN investigations :
          /\ i \in DOMAIN investigations'
          /\ investigations'[i].reference_number =
                 investigations[i].reference_number
          /\ investigations'[i].message_id = investigations[i].message_id ]_vars

\* an investigation created as INV-B, with actions of its own, has been
\* resolved with notes and closed
IdentityImmutableWitness ==
    /\ last = Call("close_investigation", 1, "ok")
    /\ investigations[1].reference_number = "INV-B"
    /\ investigations[1].message_id = 1
    /\ investigations[1].status = "closed"
    /\ investigations[1].resolved_at # NULL
    /\ audit.rows[1].resolution_notes \in Notes
    /\ ActionsOf(actions, 1) # {}


\* a classification that came without the key has received it from the tables
LookedUp(key) ==
    /\ policy.pc = "done"
    /\ policy.outcome = "ok"
    /\ policy.parsed.shape = "object"
    /\ key \notin policy.parsed.keys

Range(list) == { list[i] : i \in DOMAIN list }

\* C28: regulations lookup: for every workcase type the list contains the
\* record-keeping rule; it contains the return-timeframe rule iff the type
\* is CANCELLATION or RETURN_FUNDS, and the suspicious-activity rule iff the
\* type is REGULATORY_COMPLIANCE.
RegulationsLookup ==
    LookedUp("regulations") =>
        LET regulations == Range(policy.result.regulations)
            workcase_type == WorkcaseTypeOf(policy.parsed)
        IN  /\ "Record Keeping" \in regulations
            /\ "Return Timeframes" \in regulations
                  <=> workcase_type \in {"CANCELLATION", "RETURN_FUNDS"}
            /\ "Suspicious Activity Reporting" \in regulations
                  <=> workcase_type = "REGULATORY_COMPLIANCE"

\* a RETURN_FUNDS classification has received both rules
RegulationsLookupWitness ==
    /\ LookedUp("regulations")
    /\ policy.parsed.workcase_type = "RETURN_FUNDS"
    /\ policy.result.regulations = <<"Record Keeping", "Return Timeframes">>

\* C29: SLA lookup: every workcase type yields acknowledgment 24,
\* initial_research 48, correspondence 72, follow_up 120, resolution 240,
\* except CANCELLATION (4, 8, 12, 120, 72) and REGULATORY_COMPLIANCE
\* (initial_research 72, resolution 480, the rest as the base), whatever the
\* lookups before it returned.
SlaLookup ==
    LookedUp("sla") =>
        /\ policy.sla = policy.result.sla
        /\ policy.result.sla =
             CASE WorkcaseTypeOf(policy.parsed) = "CANCELLATION" ->
                    [ acknowledgment |-> 4, initial_research |-> 8,
                      correspondence |-> 12, follow_up |-> 120,
                      resolution |-> 72 ]
               [] WorkcaseTypeOf(policy.parsed) = "REGULATORY_COMPLIANCE" ->
                    [ acknowledgment |-> 24, initial_research |-> 72,
                      correspondence |-> 72, follow_up |-> 120,
                      resolution |-> 480 ]
               [] OTHER ->
                    [ acknowledgment |-> 24, initial_research |-> 48,
                      correspondence |-> 72, follow_up |-> 120,
                      resolution |-> 240 ]

\* a QUERY lookup has returned the base hours after an earlier lookup had
\* returned the CANCELLATION hours
SlaLookupWitness ==
    /\ LookedUp("sla")
    /\ policy.before = get_default_sla("CANCELLATION")
    /\ policy.parsed.workcase_type = "QUERY"
    /\ policy.result.sla.acknowledgment = 24
    /\ policy.result.sla.resolution = 240


Unresolved(rendered) ==
    { name \in Placeholders :
        \E i \in DOMAIN rendered : rendered[i] = Braced(name) }

\* C25: template rendering with an empty fields map, for every workcase
\* type (recognized, unrecognized or UNKNOWN), never raises and returns a
\* text in which none of reference, recipient, amount, currency, date,
\* beneficiary, reason is left as a placeholder.
EmptyFieldsRender ==
    ( /\ policy.pc = "done"
      /\ policy.parsed.shape = "object"
      /\ "response_template" \notin policy.parsed.keys
      /\ WorkcaseTypeOf(policy.parsed) \in TypeInputs
      /\ ExtractedFieldsOf(policy.parsed) = Dict(<<>>) )
        => /\ policy.outcome = "ok"
           /\ Len(policy.result.response_template) =
                  Len(TemplateOf(WorkcaseTypeOf(policy.parsed)))
           /\ Unresolved(policy.result.response_template) = {}

\* the cancellation template rendered from no fields at all
EmptyFieldsRenderWitness ==
    /\ LookedUp("response_template")
    /\ policy.parsed.workcase_type = "CANCELLATION"
    /\ policy.parsed.extracted_fields = Dict(<<>>)
    /\ policy.result.response_template =
          << "Urgent Cancellation Request", "Unknown",
             "Dear", "Valued Correspondent", "Reference", "Unknown",
             "Amount", "Unknown", "USD", "Date", Today,
             "Reason for cancellation", "Customer request",
             "Please confirm" >>

\* the default the text shows for a field the map does not supply
DocumentedDefault(name) ==
    CASE name = "recipient" -> "Valued Correspondent"
      [] name = "currency"  -> "USD"
      [] name = "date"      -> Today
      [] name = "reason"    -> "Customer request"
      [] OTHER              -> "Unknown"

\* C26: template substitution per placeholder: for each of reference,
\* recipient, amount, currency, date, beneficiary and reason that the chosen
\* template uses, the rendered text shows the value of the extracted-fields
\* map when the map supplies the field and the default only when the field
\* is missing; fields the template does not use are ignored without error.
TemplateSubstitution ==
    ( /\ policy.pc = "done"
      /\ policy.parsed.shape = "object"
      /\ "response_template" \notin policy.parsed.keys
      /\ WorkcaseTypeOf(policy.parsed) \in TypeInputs
      /\ ExtractedFieldsOf(policy.parsed).kind = "dict" )
        => LET template == TemplateOf(WorkcaseTypeOf(policy.parsed))
               fields == ExtractedFieldsOf(policy.parsed).items
               rendered == policy.result.response_template
           IN  /\ policy.outcome = "ok"
               /\ Len(rendered) = Len(template)
               /\ \A i \in DOMAIN template :
                      IF \E name \in Placeholders :
                             template[i] = Braced(name)
                      THEN \A name \in Placeholders :
                             template[i] = Braced(name) =>
                               rendered[i] =
                                 IF name \in DOMAIN fields
                                 THEN fields[name]
                                 ELSE DocumentedDefault(name)
                      ELSE rendered[i] = template[i]


\* C24: every classification result contains regulations, sla and
\* response_template; each of the three comes from the policy tables (looked
\* up by the result's workcase_type, UNKNOWN when absent) exactly when the
\* generative output lacks it, and is the output's own when it supplied it.
PolicyFill ==
    (policy.pc = "done" /\ policy.outcome = "ok") =>
        LET parsed == policy.parsed
            result == policy.result
            workcase_type == WorkcaseTypeOf(parsed)
        IN  /\ PolicyKeys \subseteq result.keys
            /\ result.regulations =
                  IF "regulations" \in parsed.keys THEN parsed.regulations
                  ELSE get_default_regulations(workcase_type)
            /\ result.sla =
                  IF "sla" \in parsed.keys THEN parsed.sla
                  ELSE get_default_sla(workcase_type)
            /\ result.response_template =
                  IF "response_template" \in parsed.keys
                  THEN parsed.response_template
                  ELSE get_default_response_template(
                           workcase_type, ExtractedFieldsOf(parsed))


\* C22: every result returned by process_single_message carries message_id,
\* processing_time and processed_at; message_id is the caller's whenever the
\* caller supplied one, and the three stamps replace members of the same
\* names in the generative output.
MessageStamps ==
    (message.pc = "done" /\ message.outcome = "ok") =>
        /\ message.result.message_id =
              IF message.message_id # NoId THEN message.message_id
              ELSE "MT-clock"
        /\ message.result.processing_time = "measured"
        /\ message.result.processed_at = "utcnow"

\* C23: the classification runs if and only if the text carries the 199
\* marker, in convert and in extract mode; when it runs, every key of the
\* classification is in the result's attributes after the merge, with the
\* classification's value where the extraction had the same key, and when it
\* does not run the attributes are those of the conversion or extraction.
ClassificationMerge ==
    (message.pc = "done" /\ message.converted # NoResult) =>
        /\ generation_calls = IF message.marker THEN 2 ELSE 1
        /\ (message.outcome = "ok" /\ ~message.marker) =>
              /\ message.workcase = NoClassification
              /\ message.result.attributes = message.converted.attributes
              /\ message.result.items = message.converted.items
        /\ (message.outcome = "ok" /\ message.marker
                                   /\ message.workcase.shape = "object") =>
              /\ message.result.attributes = "object"
              /\ \A key \in KeysOf(message.workcase) :
                     /\ <<key, "classification">> \in message.result.items
                     /\ <<key, "extraction">> \notin message.result.items
              /\ \A item \in message.converted.items :
                     item[1] \notin KeysOf(message.workcase)
                         => item \in message.result.items

\* an extraction that had a workcase_type of its own, merged with the
\* classification of a text with the marker
ClassificationMergeWitness ==
    /\ message.pc = "done"
    /\ message.outcome = "ok"
    /\ message.mode = "extract"
    /\ message.marker
    /\ <<"workcase_type", "extraction">> \in message.converted.items
    /\ message.result.items =
          { <<"amount", "extraction">>,
            <<"workcase_type", "classification">>,
            <<"regulations", "classification">>,
            <<"sla", "classification">>,
            <<"response_template", "classification">> }


\* C21: bulk partial-failure isolation: for a file of n rows the returned
\* list has n entries in row order; a row whose processing fails yields an
\* entry with that row's message id and an error, and every other row's
\* entry is the result of that row alone, whatever happened to the others.
BulkIsolation ==
    bulk.pc \in {"rows", "done"} /\ bulk.outcome # "ValueError" =>
        /\ Len(bulk.results) <= Len(bulk.rows)
        /\ bulk.pc = "done" => Len(bulk.results) = Len(bulk.rows)
        /\ \A i \in DOMAIN bulk.results :
               IF bulk.rows[i].outcome = "ok"
               THEN bulk.results[i] =
                      [ kind |-> "result", error |-> "",
                        message_id |-> IF bulk.rows[i].message_id = ""
                                       THEN "MT-clock"
                                       ELSE bulk.rows[i].message_id ]
               ELSE bulk.results[i] =
                      [ kind |-> "error", error |-> bulk.rows[i].outcome,
                        message_id |-> bulk.rows[i].message_id ]

\* the first row failed, the second has its own result
BulkIsolationWitness ==
    /\ bulk.pc = "done"
    /\ bulk.outcome = "ok"
    /\ bulk.rows = <<Row("ID-1", "TypeError"), Row("ID-2", "ok")>>
    /\ bulk.results =
          << [kind |-> "error", message_id |-> "ID-1", error |-> "TypeError"],
             [kind |-> "result", message_id |-> "ID-2", error |-> ""] >>

\* C38: in every reachable state a resolved investigation has a resolved_at,
\* and an open or in_progress investigation has none (a closed one may have
\* either).
ResolvedAtMatchesStatus ==
    \A i \in DOMAIN investigations :
        /\ investigations[i].status = "resolved"
              => investigations[i].resolved_at # NULL
        /\ investigations[i].status \in {"open", "in_progress"}
              => investigations[i].resolved_at = NULL

\* C38 witness: after a resolve has returned, a resolved investigation with
\* its timestamp next to an in_progress one without.
ResolvedAtMatchesStatusWitness ==
    /\ last.op = "resolve_investigation"
    /\ last.result = "ok"
    /\ investigations[last.id].status = "resolved"
    /\ investigations[last.id].resolved_at # NULL
    /\ \E j \in DOMAIN investigations :
          /\ investigations[j].status = "in_progress"
          /\ investigations[j].resolved_at = NULL

\* C37: an investigation never returns to open: no call moves a stored
\* investigation that is in_progress, resolved or closed to open, and an
\* investigation that is open after a call either was open before it or is the
\* row a successful create_investigation has just stored.
NeverBackToOpen ==
    [][ \A i \in DOMAIN investigations' :
            investigations'[i].status = "open"
                => \/ /\ i \in DOMAIN investigations
                      /\ investigations[i].status = "open"
                   \/ /\ i \notin DOMAIN investigations
                      /\ last'.op = "create_investigation" ]_vars

\* C37 witness: an update of an action has returned on an investigation that
\* an earlier add had moved to in_progress, and the investigation is still
\* in_progress.
NeverBackToOpenWitness ==
    /\ last.op = "update_action_status"
    /\ last.result = "ok"
    /\ actions[last.id].status = "pending"
    /\ investigations[actions[last.id].investigation_id].status = "in_progress"

\* C36: no retries: a create_investigation that has stored its investigation
\* sends exactly one request to the collaborator (none when it failed on the
\* message lookup or on the unique index before); process_single_message
\* sends one request for the conversion or extraction and exactly one more,
\* after it, when the text carries the 199 marker and the first one came
\* back; a failed request ends the call with the failure as its outcome
\* and is never sent again.
NoRetries ==
    [][ /\ steps' # steps =>
              /\ last'.op = "create_investigation"
              /\ generation_calls' = generation_calls +
                    (IF last'.result \in {"NotFound", "IntegrityError"}
                     THEN 0 ELSE 1)
              /\ last'.result = "GenerationError" => actions' = actions
        /\ (message.pc = "idle" /\ message'.pc # "idle") =>
              /\ generation_calls' = generation_calls + 1
              /\ message'.pc = "mt199" <=>
                    (message'.marker /\ message'.outcome # "GenerationError")
              /\ message'.pc = "mt199" => message'.outcome = ""
        /\ (message.pc = "mt199" /\ message' # message) =>
              /\ generation_calls' = generation_calls + 1
              /\ message'.pc = "done"
        /\ message.pc = "done" => message' = message
        /\ steps' = steps /\ message' = message =>
              generation_calls' = generation_calls ]_vars

\* C36 witness: a text with the marker has been processed with two requests,
\* the second of which failed, and a create_investigation that followed has
\* sent one request, which failed too.
NoRetriesWitness ==
    /\ message.pc = "done"
    /\ message.marker
    /\ message.outcome = "GenerationError"
    /\ message.converted # NoResult
    /\ last = Call("create_investigation", 1, "GenerationError")
    /\ steps = 1
    /\ generation_calls = 3
    /\ Len(investigations) = 1
    /\ actions = <<>>

\* C34: fallback payloads: for a text that fails both parse stages (neither
\* the whole text nor the substring from its first opening to its last
\* closing brace parses), _convert_mt_to_mx returns an object that holds the
\* text unchanged under mx_message, with a notes member beside it, and
\* _extract_attributes returns an object whose attributes hold exactly one
\* entry, raw_extraction, with the text unchanged; a text that parses at
\* either stage gets no such structure.
FallbackPayloads ==
    normalized.site \in {"convert_mt_to_mx", "extract_attributes"} =>
        LET text == normalized.raw
            blob == Blob(text, normalized.site)
            structure == normalized.structure
        IN  IF IsValue(Compact(text)) \/ IsValue(Compact(blob))
            THEN structure = NoStructure
            ELSE IF normalized.site = "convert_mt_to_mx"
            THEN /\ structure.mx_message = text
                 /\ "notes" \in structure.members
                 /\ structure.notes # ""
            ELSE /\ "attributes" \in structure.members
                 /\ structure.attributes = {<<"raw_extraction", text>>}

\* C34 witness: the extraction chain has received prose with white space and
\* an unclosed brace, and its result keeps the four tokens as they came.
FallbackPayloadsWitness ==
    /\ normalized.site = "extract_attributes"
    /\ normalized.raw = <<"w", " ", "{", "s">>
    /\ normalized.stage = "default"
    /\ normalized.structure.attributes =
          {<<"raw_extraction", <<"w", " ", "{", "s">> >>}

\* C35: bulk input validation precedes processing: a file of an unsupported
\* format, or one whose dataframe lacks the messageId or the message column,
\* ends process_bulk_messages with a ValueError before any row is processed:
\* no request has been sent to the collaborator and no entry has been
\* appended to the results.
BulkValidationFirst ==
    ( /\ bulk.pc # "idle"
      /\ \/ lower(bulk.file_extension) \notin {".csv", ".xlsx", ".xls"}
         \/ "messageId" \notin bulk.columns
         \/ "message" \notin bulk.columns )
        => /\ bulk.pc = "done"
           /\ bulk.outcome = "ValueError"
           /\ bulk.results = <<>>
           /\ generation_calls = 0

\* C35 witness: a .csv file of two rows without the message column has been
\* refused, with no row processed.
BulkValidationFirstWitness ==
    /\ bulk.pc = "done"
    /\ bulk.file_extension = ".csv"
    /\ bulk.columns = {"messageId"}
    /\ Len(bulk.rows) = 2
    /\ bulk.outcome = "ValueError"
    /\ bulk.results = <<>>
    /\ generation_calls = 0

\* C32: a successful create_investigation leaves the new investigation open
\* with exactly one stored action per suggestion of the collaborator, in
\* their order, each pending, of the suggested type, and with a deadline of
\* the creation time plus the suggestion's suggested_days (3 when the
\* suggestion has none); for an answer that does not parse, exactly one
\* action is stored, the default information_request with a deadline three
\* days on.
CreateStoresSuggestions ==
    (last.op = "create_investigation" /\ last.result = "ok") =>
        LET i == Len(investigations)
            items == audit.suggested.items
            first == Len(actions) - Len(items)
        IN  /\ investigations[i].status = "open"
            /\ investigations[i].resolved_at = NULL
            /\ ActionsOf(actions, i) = (first + 1)..Len(actions)
            /\ Cardinality(ActionsOf(actions, i)) = Len(items)
            /\ \A k \in DOMAIN items :
                   /\ actions[first + k].status = "pending"
                   /\ actions[first + k].completed_at = NULL
                   /\ audit.actions[first + k].action_type = items[k].type
                   /\ audit.actions[first + k].deadline =
                         audit.rows[i].created_at +
                            (IF items[k].given
                             THEN items[k].suggested_days ELSE 3)
            /\ ~audit.suggested.parsed =>
                   /\ Cardinality(ActionsOf(actions, i)) = 1
                   /\ audit.actions[Len(actions)].action_type
                         = "information_request"
                   /\ audit.actions[Len(actions)].deadline
                         = audit.rows[i].created_at + 3

\* C32 witness: on the second day an answer of two suggestions, the first
\* with suggested_days 10 and the second with none, has become two pending
\* actions due on days 12 and 5.
CreateStoresSuggestionsWitness ==
    /\ last = Call("create_investigation", 1, "ok")
    /\ now = 2
    /\ audit.suggested =
          Suggested(TRUE, << Suggestion("cancellation", TRUE, 10),
                             Suggestion("information_request", FALSE, 0) >>)
    /\ Len(actions) = 2
    /\ investigations[1].status = "open"
    /\ audit.actions[1].deadline = 12
    /\ audit.actions[2].deadline = 5

\* C39: update_action_status is local: a successful call leaves both tables
\* with the rows they had; of the targeted action it changes at most status,
\* completed_at, notes and updated_at, where notes becomes the supplied value
\* (none when none is supplied) and updated_at the time of the call; of the
\* investigation that owns the action it changes at most status, resolved_at
\* and updated_at; every other action, the other actions of that
\* investigation included, and every other investigation stay as they were.
UpdateIsLocal ==
    [][ ( /\ steps' # steps
          /\ last'.op = "update_action_status"
          /\ last'.result = "ok" ) =>
            LET a == last'.id
                i == actions[a].investigation_id
            IN  /\ DOMAIN actions' = DOMAIN actions
                /\ DOMAIN audit'.actions = DOMAIN audit.actions
                /\ DOMAIN investigations' = DOMAIN investigations
                /\ DOMAIN audit'.rows = DOMAIN audit.rows
                /\ \A b \in DOMAIN actions \ {a} :
                       /\ actions'[b] = actions[b]
                       /\ audit'.actions[b] = audit.actions[b]
                /\ actions'[a].investigation_id = i
                /\ audit'.actions[a] =
                       [audit.actions[a] EXCEPT !.notes = audit'.notes,
                                                !.updated_at = now]
                /\ \A j \in DOMAIN investigations \ {i} :
                       /\ investigations'[j] = investigations[j]
                       /\ audit'.rows[j] = audit.rows[j]
                /\ [investigations'[i] EXCEPT
                       !.status = investigations[i].status,
                       !.resolved_at = investigations[i].resolved_at]
                     = investigations[i]
                /\ [audit'.rows[i] EXCEPT
                       !.updated_at = audit.rows[i].updated_at]
                     = audit.rows[i] ]_vars

\* C39 witness: of the two actions of an investigation the first has been
\* completed by a call that supplied no notes: it holds none, its sibling is
\* as it was stored, and the investigation is still open.
UpdateIsLocalWitness ==
    /\ steps = 3
    /\ last = Call("update_action_status", 1, "ok")
    /\ audit.notes = NoNotes
    /\ actions[1].status = "completed"
    /\ audit.actions[1].notes = NoNotes
    /\ Len(actions) = 2
    /\ actions[2] = InvestigationAction(1)
    /\ audit.actions[2] = ActionColumns(DefaultAction, 1)
    /\ investigations[1].status = "open"
    /\ everCompleted = {1}

\* C33: get_investigations returns a total equal to the number of
\* investigations that match the status and priority filters, whatever limit
\* and offset; it returns at most limit items (none for a limit below
\* zero), each of a matching investigation; and each item's action counts
\* are the numbers of that investigation's actions in total, pending and
\* completed.
ListingPage ==
    audit.listing.returned =>
        LET page == audit.listing
            matching == Matching(page.status, page.priority)
        IN  /\ page.total = Cardinality(matching)
            /\ Len(page.investigations) <= Max({page.limit, 0})
            /\ \A k \in DOMAIN page.investigations :
                   LET item == page.investigations[k]
                   IN  /\ item.id \in matching
                       /\ item.status = investigations[item.id].status
                       /\ item.priority = investigations[item.id].priority
                       /\ item.action_counts = ActionCounts(item.id)

\* C31: concurrent completion: when two requests have run
\* update_action_status(completed), each on one of the last two actions of
\* an investigation that were not completed, then in every interleaving of
\* their statements the investigation is resolved once both have returned:
\* the request that commits its action second counts both as completed.
ConcurrentCompletion ==
    LET first == requests["r1"]
        second == requests["r2"]
        i == first.investigation_id
    IN  ( /\ \A r \in Requests :
                /\ requests[r].pc = "done"
                /\ requests[r].result = "ok"
                /\ requests[r].status = "completed"
                /\ requests[r].read_status # "completed"
          /\ first.action_id # second.action_id
          /\ second.investigation_id = i
          /\ \A a \in ActionsOf(actions, i) : actions[a].status = "completed" )
        => /\ investigations[i].status = "resolved"
           /\ investigations[i].resolved_at # NULL

\* C31 witness: an open investigation was created with two pending actions;
\* the first request counted before the second had committed and saw one of
\* two completed, the second saw two of two, and the investigation is
\* resolved.
ConcurrentCompletionWitness ==
    /\ steps = 1
    /\ Len(actions) = 2
    /\ \A r \in Requests : requests[r].pc = "done" /\ requests[r].result = "ok"
    /\ requests["r1"].action_id = 1
    /\ requests["r2"].action_id = 2
    /\ requests["r1"].read_status = "pending"
    /\ requests["r2"].read_status = "pending"
    /\ requests["r1"].total_actions = 2
    /\ requests["r1"].completed_actions = 1
    /\ requests["r2"].completed_actions = 2
    /\ investigations[1].status = "resolved"

====
